---------------------------- MODULE Spec2Model ----------------------------
(***************************************************************************)
(* A model of the lowering engine of the tensor algebra compiler           *)
(* (src/src/lower/lower.cpp) and of the tensor front end that drives it    *)
(* (src/src/tensor_base.cpp).                                              *)
(*                                                                         *)
(* lower() emits an IR procedure.  The model keeps the IR as data (records *)
(* tagged by the field k), translates lower() statement by statement into  *)
(* operators that build that data, and gives the IR an executable          *)
(* semantics (Eval / Exec) so that the emitted code can be run on packed   *)
(* operands.  Floating point values are modelled by integers.              *)
(***************************************************************************)
EXTENDS Integers, Sequences, FiniteSets, TLC

(***************************************************************************)
(* Bounds of the model.                                                    *)
(***************************************************************************)
\* dimension of every tensor mode in the kernels that are compiled and run
Dim == 2
\* dimension of the vectors co-iterated by the merge loop machine
VecDim == 3
\* iterations after which the interpreter gives up on one emitted loop
MaxIter == 12

(***************************************************************************)
(* IR expressions (taco::ir::Expr).                                        *)
(***************************************************************************)
Undef == [k |-> "Undef"]
IntLit(n) == [k |-> "IntLit", n |-> n]
BoolLit(b) == [k |-> "BoolLit", b |-> b]
Var(name) == [k |-> "Var", name |-> name]
GetProperty(tensor, prop) == [k |-> "GetProperty", name |-> tensor \o "_" \o prop]
Load(arr, idx) == [k |-> "Load", arr |-> arr, idx |-> idx]
Bin(op, a, b) == [k |-> op, a |-> a, b |-> b]
Min(args) == [k |-> "Min", args |-> args]
Cast(a) == [k |-> "Cast", a |-> a]

defined(e) == e.k # "Undef"
isLiteral(e) == e.k \in {"IntLit", "BoolLit"}
isTrueLiteral(e) == e.k = "BoolLit" /\ e.b
equalsScalar(e, n) == e.k = "IntLit" /\ e.n = n

(***************************************************************************)
(* IR statements (taco::ir::Stmt).  NoStmt is the undefined statement.     *)
(***************************************************************************)
NoStmt == [k |-> "NoStmt"]
VarAssign(lhs, rhs, decl) == [k |-> "VarAssign", lhs |-> lhs, rhs |-> rhs, decl |-> decl]
Store(arr, loc, data) == [k |-> "Store", arr |-> arr, loc |-> loc, data |-> data]
For(var, start, end, body, kind) ==
  [k |-> "For", var |-> var, start |-> start, end |-> end, body |-> body, kind |-> kind]
While(cond, body) == [k |-> "While", cond |-> cond, body |-> body]
IfThenElse(cond, then) == [k |-> "IfThenElse", cond |-> cond, then |-> then]
Case(clauses, alwaysMatch) == [k |-> "Case", clauses |-> clauses, alwaysMatch |-> alwaysMatch]
Switch(clauses, control) == [k |-> "Switch", clauses |-> clauses, control |-> control]
Block(stmts) == [k |-> "Block", stmts |-> stmts]
Allocate(arr, size, isRealloc) ==
  [k |-> "Allocate", arr |-> arr, size |-> size, isRealloc |-> isRealloc]
BlankLine == [k |-> "BlankLine"]
\* ghost statement: records that the body of a lattice case started to run
CaseMark(iv, point, idx) == [k |-> "CaseMark", iv |-> iv, point |-> point, idx |-> idx]

stmtDefined(s) == s.k # "NoStmt"

\* push_back of a statement that may be undefined (if (s.defined()) push_back)
PushIfDefined(stmts, s) == IF stmtDefined(s) THEN Append(stmts, s) ELSE stmts

(***************************************************************************)
(* ir_generators: compoundStore / compoundAssign / conjunction.            *)
(***************************************************************************)
compoundStore(arr, loc, data) == Store(arr, loc, Bin("Add", Load(arr, loc), data))
compoundAssign(lhs, rhs) == VarAssign(lhs, Bin("Add", lhs, rhs), FALSE)

RECURSIVE conjunctionFrom(_, _)
conjunctionFrom(es, i) ==
  IF i = Len(es) THEN es[i] ELSE Bin("And", es[i], conjunctionFrom(es, i + 1))
conjunction(es) == conjunctionFrom(es, 1)

(***************************************************************************)
(* ir::simplify: constant folding of the arithmetic and boolean nodes the  *)
(* lowering code builds.                                                   *)
(***************************************************************************)
RECURSIVE simplify(_)
simplify(e) ==
  IF e.k \in {"Add", "Sub", "Mul", "And"} THEN
    LET a == simplify(e.a)
        b == simplify(e.b)
    IN CASE e.k = "Add" /\ a.k = "IntLit" /\ b.k = "IntLit" -> IntLit(a.n + b.n)
         [] e.k = "Add" /\ equalsScalar(a, 0) -> b
         [] e.k = "Add" /\ equalsScalar(b, 0) -> a
         [] e.k = "Sub" /\ a.k = "IntLit" /\ b.k = "IntLit" -> IntLit(a.n - b.n)
         [] e.k = "Sub" /\ equalsScalar(b, 0) -> a
         [] e.k = "Mul" /\ a.k = "IntLit" /\ b.k = "IntLit" -> IntLit(a.n * b.n)
         [] e.k = "Mul" /\ (equalsScalar(a, 0) \/ equalsScalar(b, 0)) -> IntLit(0)
         [] e.k = "Mul" /\ equalsScalar(a, 1) -> b
         [] e.k = "Mul" /\ equalsScalar(b, 1) -> a
         [] e.k = "And" /\ isTrueLiteral(a) -> b
         [] e.k = "And" /\ isTrueLiteral(b) -> a
         [] e.k = "And" /\ (a.k = "BoolLit" \/ b.k = "BoolLit") -> BoolLit(FALSE)
         [] OTHER -> Bin(e.k, a, b)
  ELSE e

(***************************************************************************)
(* Execution of the IR.  An environment holds the scalar variables (v),    *)
(* the arrays (a, a sequence per array, position p at index p + 1), the    *)
(* value found in memory that was allocated and never written (junk), and  *)
(* ghost fields: the case bodies entered (fired), the accesses made to the *)
(* watched array (acc), whether a store fell outside its array (oob) and   *)
(* whether a loop was cut off after MaxIter iterations (cut).              *)
(***************************************************************************)
MinOf(S) == CHOOSE m \in S : \A x \in S : m <= x

RECURSIVE Pow2(_)
Pow2(n) == IF n = 0 THEN 1 ELSE 2 * Pow2(n - 1)
\* bit i (from 0) of the natural number n
Bit(n, i) == (n \div Pow2(i)) % 2
RECURSIVE BitAnd(_, _)
BitAnd(m, n) ==
  IF m = 0 \/ n = 0 THEN 0
  ELSE 2 * BitAnd(m \div 2, n \div 2) + (IF m % 2 = 1 /\ n % 2 = 1 THEN 1 ELSE 0)

RECURSIVE Eval(_, _)
Eval(e, env) ==
  CASE e.k = "IntLit" -> e.n
    [] e.k = "BoolLit" -> e.b
    [] e.k = "Var" -> env.v[e.name]
    [] e.k = "GetProperty" -> env.v[e.name]
    [] e.k = "Load" ->
         LET p == Eval(e.idx, env)
             arr == env.a[e.arr.name]
         IN IF p >= 0 /\ p < Len(arr) THEN arr[p + 1] ELSE env.junk
    [] e.k = "Add" -> Eval(e.a, env) + Eval(e.b, env)
    [] e.k = "Sub" -> Eval(e.a, env) - Eval(e.b, env)
    [] e.k = "Mul" -> Eval(e.a, env) * Eval(e.b, env)
    [] e.k = "Lt" -> Eval(e.a, env) < Eval(e.b, env)
    [] e.k = "Lte" -> Eval(e.a, env) <= Eval(e.b, env)
    [] e.k = "Eq" -> Eval(e.a, env) = Eval(e.b, env)
    [] e.k = "Neq" -> Eval(e.a, env) # Eval(e.b, env)
    [] e.k = "And" -> Eval(e.a, env) /\ Eval(e.b, env)
    [] e.k = "Min" -> MinOf({Eval(e.args[i], env) : i \in 1..Len(e.args)})
    [] e.k = "Cast" -> IF Eval(e.a, env) THEN 1 ELSE 0
    [] e.k = "BitAnd" -> BitAnd(Eval(e.a, env), Eval(e.b, env))

\* the positions of the watched array that evaluating e reads
RECURSIVE Reads(_, _)
Reads(e, env) ==
  CASE e.k = "Load" ->
         Reads(e.idx, env) \cup
           (IF e.arr.name = env.watch THEN {Eval(e.idx, env)} ELSE {})
    [] e.k \in {"Add", "Sub", "Mul", "Lt", "Lte", "Eq", "Neq", "And", "BitAnd"} ->
         Reads(e.a, env) \cup Reads(e.b, env)
    [] e.k = "Cast" -> Reads(e.a, env)
    [] e.k = "Min" -> UNION {Reads(e.args[i], env) : i \in 1..Len(e.args)}
    [] OTHER -> {}

Logged(env, e) ==
  IF env.watch = "" THEN env
  ELSE LET rs == Reads(e, env)
       IN IF rs = {} THEN env
          ELSE [env EXCEPT !.acc = @ \o <<[op |-> "r", at |-> rs]>>]

SetVar(env, name, val) == [env EXCEPT !.v = (name :> val) @@ @]

StoreAt(env, name, p, val) ==
  LET arr == env.a[name]
      e1 == IF name = env.watch
            THEN [env EXCEPT !.acc = @ \o <<[op |-> "w", at |-> {p}]>>]
            ELSE env
  IN IF p >= 0 /\ p < Len(arr)
     THEN [e1 EXCEPT !.a = (name :> [arr EXCEPT ![p + 1] = val]) @@ @]
     ELSE [e1 EXCEPT !.oob = TRUE]

AllocArr(env, name, n, isRealloc) ==
  LET old == IF isRealloc /\ name \in DOMAIN env.a THEN env.a[name] ELSE <<>>
      new == [i \in 1..n |-> IF i <= Len(old) THEN old[i] ELSE env.junk]
  IN [env EXCEPT !.a = (name :> new) @@ @]

RECURSIVE Exec(_, _), ExecSeq(_, _, _), ExecWhile(_, _, _), ExecFor(_, _, _),
          ExecCase(_, _, _), ExecSwitch(_, _, _)
Exec(s, env) ==
  CASE s.k = "VarAssign" ->
         SetVar(Logged(env, s.rhs), s.lhs.name, Eval(s.rhs, env))
    [] s.k = "Store" ->
         LET e1 == Logged(Logged(env, s.loc), s.data)
         IN StoreAt(e1, s.arr.name, Eval(s.loc, env), Eval(s.data, env))
    [] s.k = "Allocate" -> AllocArr(env, s.arr.name, Eval(s.size, env), s.isRealloc)
    [] s.k = "Block" -> ExecSeq(s.stmts, 1, env)
    [] s.k = "IfThenElse" -> IF Eval(s.cond, env) THEN Exec(s.then, env) ELSE env
    [] s.k = "While" -> ExecWhile(s, env, MaxIter)
    [] s.k = "For" -> ExecFor(s, SetVar(env, s.var.name, Eval(s.start, env)), MaxIter)
    [] s.k = "Case" -> ExecCase(s, 1, env)
    [] s.k = "Switch" -> ExecSwitch(s, 1, env)
    [] s.k = "CaseMark" ->
         [env EXCEPT !.fired =
            Append(@, [iv |-> s.iv, point |-> s.point, idx |-> Eval(s.idx, env)])]
    [] OTHER -> env

ExecSeq(stmts, i, env) ==
  IF i > Len(stmts) THEN env ELSE ExecSeq(stmts, i + 1, Exec(stmts[i], env))

ExecWhile(s, env, fuel) ==
  IF ~Eval(s.cond, env) THEN env
  ELSE IF fuel = 0 THEN [env EXCEPT !.cut = TRUE]
  ELSE ExecWhile(s, Exec(s.body, env), fuel - 1)

ExecFor(s, env, fuel) ==
  IF ~(env.v[s.var.name] < Eval(s.end, env)) THEN env
  ELSE IF fuel = 0 THEN [env EXCEPT !.cut = TRUE]
  ELSE LET e1 == Exec(s.body, env)
       IN ExecFor(s, SetVar(e1, s.var.name, e1.v[s.var.name] + 1), fuel - 1)

\* if / else if chain; with alwaysMatch the last clause is the else
ExecCase(s, i, env) ==
  IF i > Len(s.clauses) THEN env
  ELSE IF (s.alwaysMatch /\ i = Len(s.clauses)) \/ Eval(s.clauses[i][1], env)
       THEN Exec(s.clauses[i][2], env)
       ELSE ExecCase(s, i + 1, env)

\* switch on the value of the control expression; the clause labels are literals
ExecSwitch(s, i, env) ==
  IF i > Len(s.clauses) THEN env
  ELSE IF Eval(s.clauses[i][1], env) = Eval(s.control, env)
       THEN Exec(s.clauses[i][2], env)
       ELSE ExecSwitch(s, i + 1, env)

EmptyEnv(junk) ==
  [v |-> <<>>, a |-> <<>>, fired |-> <<>>, acc |-> <<>>, oob |-> FALSE,
   cut |-> FALSE, junk |-> junk, watch |-> ""]


(***************************************************************************)
(* Index notation: an index expression is an access, or Add / Mul of two   *)
(* index expressions.  A temporary is an access without index variables.   *)
(***************************************************************************)
NoExpr == [k |-> "NoExpr"]
Access(t, ivars) == [k |-> "Access", t |-> t, ivars |-> ivars]
AddNode(a, b) == [k |-> "AddNode", a |-> a, b |-> b]
MulNode(a, b) == [k |-> "MulNode", a |-> a, b |-> b]
exprDefined(e) == e.k # "NoExpr"
Range(s) == {s[n] : n \in 1..Len(s)}

RECURSIVE getAccesses(_)
getAccesses(e) ==
  IF e.k = "Access" THEN <<e>> ELSE getAccesses(e.a) \o getAccesses(e.b)

(***************************************************************************)
(* The statement being lowered (TensorVar with its assignment, formats and *)
(* iteration graph) is a record K:                                         *)
(*   name, resultVars : the result tensor and its index variables          *)
(*   rhs              : the right-hand side index expression               *)
(*   formats          : tensor name -> level kinds, "d" dense,             *)
(*                      "s" compressed, "n" compressed and not unique      *)
(*   ivars, parent    : the iteration graph (a forest over index variables)*)
(*   properties       : subset of {"Assemble","Compute","Accumulate"}      *)
(*   operator         : "" for =, "AddNode" for +=                         *)
(*   allocSize, fixedDims                                                  *)
(***************************************************************************)

(***************************************************************************)
(* Iteration graph queries.                                                *)
(***************************************************************************)
getRoots(K) == SelectSeq(K.ivars, LAMBDA v : K.parent[v] = "")
getChildren(K, iv) == SelectSeq(K.ivars, LAMBDA v : K.parent[v] = iv)
RECURSIVE getAncestors(_, _)
\* the ancestors of iv, iv included, root first
getAncestors(K, iv) ==
  IF K.parent[iv] = "" THEN <<iv>> ELSE Append(getAncestors(K, K.parent[iv]), iv)
\* the descendants of iv, iv included
getDescendants(K, iv) == SelectSeq(K.ivars, LAMBDA v : iv \in Range(getAncestors(K, v)))
isFree(K, iv) == iv \in Range(K.resultVars)
isReduction(K, iv) == ~isFree(K, iv)
hasFreeVariableDescendant(K, iv) ==
  \E v \in Range(getDescendants(K, iv)) : v # iv /\ isFree(K, v)
isLastFreeVariable(K, iv) == isFree(K, iv) /\ ~hasFreeVariableDescendant(K, iv)
hasReductionVariableAncestor(K, iv) ==
  \E v \in Range(getAncestors(K, iv)) : isReduction(K, v)

\* tensor paths: the operands' accesses, and the result's
TensorPath(t, ivars) == [t |-> t, ivars |-> ivars]
getTensorPaths(K) ==
  LET acc == getAccesses(K.rhs)
  IN [n \in 1..Len(acc) |-> TensorPath(acc[n].t, acc[n].ivars)]
getResultTensorPath(K) == TensorPath(K.name, K.resultVars)
getTensorPath(K, t) ==
  IF t = K.name THEN getResultTensorPath(K)
  ELSE LET ps == getTensorPaths(K)
       IN ps[CHOOSE n \in 1..Len(ps) : ps[n].t = t]
\* the step (level, from 1) of the path at index variable iv; 0: no such step
getStep(path, iv) ==
  IF iv \in Range(path.ivars)
  THEN CHOOSE l \in 1..Len(path.ivars) : path.ivars[l] = iv
  ELSE 0

(***************************************************************************)
(* Iterators (storage/iterator.h): one per tensor path step, level 0 is    *)
(* the root iterator of the tensor.                                        *)
(***************************************************************************)
NoIterator == [t |-> "", l |-> 0, kind |-> "none", iv |-> ""]
RootIterator(t) == [t |-> t, l |-> 0, kind |-> "root", iv |-> ""]
IteratorAt(K, path, l) ==
  IF l = 0 THEN RootIterator(path.t)
  ELSE [t |-> path.t, l |-> l, kind |-> K.formats[path.t][l], iv |-> path.ivars[l]]
\* ctx.iterators[path.getStep(iv)]; undefined when the path has no step at iv
IteratorOf(K, path, iv) ==
  IF getStep(path, iv) = 0 THEN NoIterator ELSE IteratorAt(K, path, getStep(path, iv))
iterDefined(it) == it.kind # "none"
getParent(K, it) ==
  IF it.kind \in {"none", "root"} THEN NoIterator
  ELSE IteratorAt(K, getTensorPath(K, it.t), it.l - 1)

hasCoordPosIter(it) == it.kind \in {"s", "n"}
hasCoordValIter(it) == it.kind = "d"
\* "h": a level looked up by coordinate, whose slot may hold no entry
hasLocate(it) == it.kind \in {"d", "h"}
hasInsert(it) == it.kind = "d"
hasAppend(it) == it.kind \in {"s", "n"}
isUnique(it) == it.kind # "n"
isFull(it) == it.kind \in {"d", "root"}
\* none of the level kinds modelled is branchless
isBranchless(it) == FALSE

getTensor(it) == it.t
LevelName(it) == it.t \o ToString(it.l)
getPosVar(it) == IF it.kind = "root" THEN IntLit(0) ELSE Var("p" \o LevelName(it))
getIdxVar(it) == Var(it.iv \o it.t)
getIteratorVar(it) == IF hasCoordPosIter(it) THEN getPosVar(it) ELSE getIdxVar(it)
getDerivedVar(it) == IF hasCoordPosIter(it) THEN getIdxVar(it) ELSE getPosVar(it)
getEndVar(it) == Var("p" \o LevelName(it) \o "_end")
getBeginVar(it) == Var("p" \o LevelName(it) \o "_begin")
getSegendVar(it) == Var("p" \o LevelName(it) \o "_segend")
getValidVar(it) == Var("v" \o LevelName(it))
PosArray(it) == GetProperty(LevelName(it), "pos")
IdxArray(it) == GetProperty(LevelName(it), "idx")
Values(t) == GetProperty(t, "vals")
ValuesSize(t) == GetProperty(t, "vals_size")
getSize(K, it) ==
  IF K.fixedDims THEN IntLit(K.dim) ELSE GetProperty(LevelName(it), "dimension")

\* <<prologue, begin, end>> of the loop over the positions of a segment
getPosIter(it, parentPos) ==
  <<NoStmt, Load(PosArray(it), parentPos),
    Load(PosArray(it), Bin("Add", parentPos, IntLit(1)))>>
\* <<prologue, begin, end>> of the loop over the coordinates of a dimension
getCoordIter(K, it) == <<NoStmt, IntLit(0), getSize(K, it)>>
\* <<prologue, coordinate, valid>> at a position
getPosAccess(it, pos) == <<NoStmt, Load(IdxArray(it), pos), BoolLit(TRUE)>>
\* <<prologue, position, valid>> at a coordinate
getCoordAccess(K, it, parentPos, idx) ==
  <<NoStmt, Bin("Add", Bin("Mul", parentPos, getSize(K, it)), idx), BoolLit(TRUE)>>
getLocate(K, it, parentPos, idx) ==
  LET pos == Bin("Add", Bin("Mul", parentPos, getSize(K, it)), idx)
  IN <<NoStmt, pos,
       IF it.kind = "h" THEN Bin("Eq", Load(IdxArray(it), pos), idx) ELSE BoolLit(TRUE)>>

\* capacity given to the index arrays of an appended result level
IdxCapacity(K) == K.dim * K.dim + 1
\* edges are stored as absolute ends below the root and below an append level,
\* as segment sizes (summed up when the level is finalized) below an insert level
absoluteEdges(K, it) == ~hasInsert(getParent(K, it))
getInsertInitLevel(it, szPrev, sz) == NoStmt
getInsertInitCoords(it, pBegin, pEnd) == NoStmt
getInsertCoord(it, pos, idx) == NoStmt
getInsertFinalizeLevel(it, szPrev, sz) == NoStmt
getAppendInitLevel(K, it, szPrev, sz) ==
  Block(<<Allocate(PosArray(it), IntLit(IdxCapacity(K)), FALSE),
          Store(PosArray(it), IntLit(0), IntLit(0)),
          Allocate(IdxArray(it), IntLit(IdxCapacity(K)), FALSE)>>)
getAppendInitEdges(K, it, pPrevBegin, pPrevEnd) ==
  IF absoluteEdges(K, it) THEN NoStmt
  ELSE For(Var("pp" \o LevelName(it)), pPrevBegin, pPrevEnd,
           Store(PosArray(it), Bin("Add", Var("pp" \o LevelName(it)), IntLit(1)),
                 IntLit(0)), "Serial")
getAppendCoord(it, pos, idx) == Store(IdxArray(it), pos, idx)
getAppendEdges(K, it, pPrev, pBegin, pEnd) ==
  Store(PosArray(it), Bin("Add", pPrev, IntLit(1)),
        IF absoluteEdges(K, it) THEN pEnd ELSE Bin("Sub", pEnd, pBegin))
getAppendFinalizeLevel(K, it, szPrev, sz) ==
  IF absoluteEdges(K, it) THEN NoStmt
  ELSE For(Var("pp" \o LevelName(it)), IntLit(0), szPrev,
           compoundStore(PosArray(it), Bin("Add", Var("pp" \o LevelName(it)), IntLit(1)),
                         Load(PosArray(it), Var("pp" \o LevelName(it)))), "Serial")


(***************************************************************************)
(* Merge lattices (merge_lattice.h).  A lattice is a sequence of points; a *)
(* point has the iterators it merges, those of them that advance           *)
(* sequentially (range iterators; the others are accessed with locate) and *)
(* the index expression restricted to the point.                           *)
(***************************************************************************)
MergeLatticePoint(its, rangeIts, e) ==
  [iterators |-> its, rangeIterators |-> rangeIts, expr |-> e]
\* a followed by the elements of b that are not in a (util::combine, no duplicates)
SeqUnion(a, b) == a \o SelectSeq(b, LAMBDA y : y \notin Range(a))
\* the elements of a that are not in b (util::remove)
SeqRemove(a, b) == SelectSeq(a, LAMBDA y : y \notin Range(b))
\* the iterators of a conjunction that are full or can be looked up are
\* accessed with locate, unless all are
simplifyRange(its) ==
  LET sparse == SelectSeq(its, LAMBDA it : ~isFull(it) /\ ~hasLocate(it))
  IN IF sparse = <<>> THEN <<its[1]>> ELSE sparse
IndexOp(op, a, b) == [k |-> op, a |-> a, b |-> b]
conjunctionPoint(op, a, b) ==
  MergeLatticePoint(SeqUnion(a.iterators, b.iterators),
                    simplifyRange(SeqUnion(a.rangeIterators, b.rangeIterators)),
                    IndexOp(op, a.expr, b.expr))
\* the iterators of a disjunction all advance, unless all are full: one full
\* iterator then ranges over the dimension and the others follow it
simplifyFull(its) ==
  IF \A it \in Range(its) : isFull(it) THEN <<its[1]>> ELSE its
disjunctionPoint(op, a, b) ==
  MergeLatticePoint(SeqUnion(a.iterators, b.iterators),
                    simplifyFull(SeqUnion(a.rangeIterators, b.rangeIterators)),
                    IndexOp(op, a.expr, b.expr))
\* all pairs of a point of a with a point of b, a's points outermost
RECURSIVE pointPairs(_, _, _, _, _, _)
pointPairs(op, disj, a, b, n, m) ==
  IF n > Len(a) THEN <<>>
  ELSE IF m > Len(b) THEN pointPairs(op, disj, a, b, n + 1, 1)
  ELSE <<IF disj THEN disjunctionPoint(op, a[n], b[m])
         ELSE conjunctionPoint(op, a[n], b[m])>>
         \o pointPairs(op, disj, a, b, n, m + 1)
latticeConjunction(op, a, b) == pointPairs(op, FALSE, a, b, 1, 1)
\* a point without a full iterator of the top point is never reached: a full
\* iterator is exhausted last
latticeDisjunction(op, a, b) ==
  LET allPoints == pointPairs(op, TRUE, a, b, 1, 1) \o a \o b
      dense == {it \in Range(allPoints[1].iterators) : isFull(it)}
  IN SelectSeq(allPoints, LAMBDA p : dense \subseteq Range(p.iterators))
latticeScale(op, lat, e, left) ==
  [n \in 1..Len(lat) |->
     [lat[n] EXCEPT !.expr = IF left THEN IndexOp(op, e, @) ELSE IndexOp(op, @, e)]]

RECURSIVE MergeLatticeMake(_, _, _)
MergeLatticeMake(K, e, iv) ==
  IF e.k = "Access" THEN
    IF iv \in Range(e.ivars)
    THEN LET it == IteratorOf(K, getTensorPath(K, e.t), iv)
         IN <<MergeLatticePoint(<<it>>, <<it>>, e)>>
    ELSE <<>>
  ELSE
    LET a == MergeLatticeMake(K, e.a, iv)
        b == MergeLatticeMake(K, e.b, iv)
    IN CASE a # <<>> /\ b # <<>> ->
              IF e.k = "AddNode" THEN latticeDisjunction(e.k, a, b)
              ELSE latticeConjunction(e.k, a, b)
         [] a # <<>> /\ b = <<>> -> latticeScale(e.k, a, e.b, FALSE)
         [] a = <<>> /\ b # <<>> -> latticeScale(e.k, b, e.a, TRUE)
         [] OTHER -> <<>>

latticeRangeIteratorsOf(lattice) == lattice[1].rangeIterators
getSubLattice(lattice, lp) ==
  SelectSeq(lattice, LAMBDA lq : Range(lq.iterators) \subseteq Range(lp.iterators))
latticeIsFull(lattice) ==
  \E n \in 1..Len(lattice) : \A it \in Range(lattice[n].rangeIterators) : isFull(it)

(***************************************************************************)
(* Expression tools (expr_tools.h).                                        *)
(***************************************************************************)
\* [avail, found]: is e available, and the maximal available sub-expressions
\* found strictly inside e
RECURSIVE availVisit(_, _)
availVisit(e, visited) ==
  IF e.k = "Access"
  THEN [avail |-> Range(e.ivars) \subseteq visited, found |-> <<>>]
  ELSE LET a == availVisit(e.a, visited)
           b == availVisit(e.b, visited)
       IN IF a.avail /\ b.avail THEN [avail |-> TRUE, found |-> <<>>]
          ELSE [avail |-> FALSE,
                found |-> a.found \o b.found
                            \o (IF a.avail THEN <<e.a>> ELSE <<>>)
                            \o (IF b.avail THEN <<e.b>> ELSE <<>>)]
getAvailableExpressions(e, visited) ==
  LET r == availVisit(e, Range(visited))
  IN IF r.avail THEN Append(r.found, e) ELSE r.found

\* the sub-expression made of the operands indexed by one of ivars
RECURSIVE getSubExprOld(_, _)
getSubExprOld(e, ivars) ==
  IF e.k = "Access"
  THEN IF Range(e.ivars) \cap Range(ivars) # {} THEN e ELSE NoExpr
  ELSE LET a == getSubExprOld(e.a, ivars)
           b == getSubExprOld(e.b, ivars)
       IN CASE exprDefined(a) /\ exprDefined(b) -> e
            [] exprDefined(a) -> a
            [] exprDefined(b) -> b
            [] OTHER -> NoExpr
RECURSIVE getSubExpr(_, _)
getSubExpr(e, ivars) ==
  IF e.k = "Access"
  THEN IF Range(e.ivars) \cap Range(ivars) # {} THEN e ELSE NoExpr
  ELSE LET a == getSubExpr(e.a, ivars)
           b == getSubExpr(e.b, ivars)
       IN CASE exprDefined(a) /\ exprDefined(b) -> IndexOp(e.k, a, b)
            [] exprDefined(a) -> a
            [] exprDefined(b) -> b
            [] OTHER -> NoExpr

\* replace(e, {{from, to}})
RECURSIVE replace(_, _, _)
replace(e, from, to) ==
  IF e = from THEN to
  ELSE IF e.k = "Access" THEN e
  ELSE IndexOp(e.k, replace(e.a, from, to), replace(e.b, from, to))
RECURSIVE replaceAll(_, _, _)
replaceAll(e, substitutions, n) ==
  IF n > Len(substitutions) THEN e
  ELSE replaceAll(replace(e, substitutions[n][1], substitutions[n][2]),
                  substitutions, n + 1)

\* the scalar IR expression of an index expression whose operands are all
\* positioned: a temporary is its variable, an operand is loaded from its values
\* at the position of the iterator of its last level
RECURSIVE lowerToScalarExpression(_, _, _)
lowerToScalarExpression(K, e, temporaries) ==
  IF e.k = "Access" THEN
    IF e.t \in temporaries THEN Var(e.t)
    ELSE LET path == getTensorPath(K, e.t)
         IN Load(Values(e.t), getPosVar(IteratorAt(K, path, Len(path.ivars))))
  ELSE Bin(IF e.k = "AddNode" THEN "Add" ELSE "Mul",
           lowerToScalarExpression(K, e.a, temporaries),
           lowerToScalarExpression(K, e.b, temporaries))


(***************************************************************************)
(* lower.cpp: helpers of the lowering recursion.                           *)
(***************************************************************************)
\* number of bits of UInt(), the type of the merge indicator
UIntBits == 32

\* struct Target
Target(tensor, pos) == [tensor |-> tensor, pos |-> pos]

getComputeCase(K, indexVar) ==
  IF isLastFreeVariable(K, indexVar) THEN "LAST_FREE"
  ELSE IF hasFreeVariableDescendant(K, indexVar) THEN "ABOVE_LAST_FREE"
  ELSE "BELOW_LAST_FREE"

needsZeroVars(K, resultIdxVars) ==
  \E n \in 1..Len(resultIdxVars) :
    LET idxVar == resultIdxVars[n]
    IN /\ hasInsert(IteratorOf(K, getResultTensorPath(K), idxVar))
       /\ \E m \in 1..Len(getTensorPaths(K)) :
            LET tensorPath == getTensorPaths(K)[m]
            IN /\ idxVar \in Range(tensorPath.ivars)
               /\ ~isFull(IteratorOf(K, tensorPath, idxVar))

\* the zeroing decided from the result index variables alone
needsZeroFree(K) == needsZeroVars(K, K.resultVars)

needsZero(K) ==
  LET resultIdxVars == K.resultVars
  IN IF hasReductionVariableAncestor(K, resultIdxVars[Len(resultIdxVars)]) THEN TRUE
     ELSE needsZeroVars(K, resultIdxVars)

\* [expr, temporaries, stmts]: every available expression is assigned to a
\* temporary named t<indexVar> and replaced by an access to it
RECURSIVE emitAvailableExprsFrom(_, _, _, _, _)
emitAvailableExprsFrom(K, indexVar, availExprs, n, acc) ==
  IF n > Len(availExprs) THEN acc
  ELSE LET availExpr == availExprs[n]
           t == "t" \o indexVar
           temporaries == acc.temporaries \cup {t}
           expr == lowerToScalarExpression(K, availExpr, temporaries)
       IN emitAvailableExprsFrom(K, indexVar, availExprs, n + 1,
            [substitutions |-> Append(acc.substitutions, <<availExpr, Access(t, <<>>)>>),
             temporaries |-> temporaries,
             stmts |-> Append(acc.stmts, VarAssign(Var(t), expr, TRUE))])
emitAvailableExprs(K, indexVar, indexExpr, temporaries, stmts) ==
  LET visited == getAncestors(K, indexVar)
      availExprs == getAvailableExpressions(indexExpr, visited)
      r == emitAvailableExprsFrom(K, indexVar, availExprs, 1,
             [substitutions |-> <<>>, temporaries |-> temporaries, stmts |-> stmts])
  IN [expr |-> replaceAll(indexExpr, r.substitutions, 1),
      temporaries |-> r.temporaries, stmts |-> r.stmts]

\* the expression stored or assigned, never added to what the target holds
emitComputeExprAssign(K, target, indexVar, indexExpr, temporaries, accum) ==
  IF defined(target.pos)
  THEN Store(target.tensor, target.pos, lowerToScalarExpression(K, indexExpr, temporaries))
  ELSE VarAssign(target.tensor, lowerToScalarExpression(K, indexExpr, temporaries), FALSE)

\* the expression added to the target only when accum is set
emitComputeExprAccumOnly(K, target, indexVar, indexExpr, temporaries, accum) ==
  IF defined(target.pos)
  THEN IF accum
       THEN compoundStore(target.tensor, target.pos,
                          lowerToScalarExpression(K, indexExpr, temporaries))
       ELSE Store(target.tensor, target.pos,
                  lowerToScalarExpression(K, indexExpr, temporaries))
  ELSE IF accum
       THEN compoundAssign(target.tensor, lowerToScalarExpression(K, indexExpr, temporaries))
       ELSE VarAssign(target.tensor, lowerToScalarExpression(K, indexExpr, temporaries), FALSE)

emitComputeExpr(K, target, indexVar, indexExpr, temporaries, accum) ==
  LET expr == lowerToScalarExpression(K, indexExpr, temporaries)
  IN IF defined(target.pos)
     THEN IF hasReductionVariableAncestor(K, indexVar) \/ accum
          THEN compoundStore(target.tensor, target.pos, expr)
          ELSE Store(target.tensor, target.pos, expr)
     ELSE IF hasReductionVariableAncestor(K, indexVar) \/ accum
          THEN compoundAssign(target.tensor, expr)
          ELSE VarAssign(target.tensor, expr, FALSE)

\* the tag chosen from the path of the tensor alone, for every index variable
doParallelizeUnguarded(K, indexVar, tensor) ==
  IF Len(getTensorPath(K, tensor).ivars) <= 2 THEN "Static"
  ELSE IF \E i \in 2..Len(getTensorPath(K, tensor).ivars) :
            isFull(IteratorAt(K, getTensorPath(K, tensor), i))
       THEN "Static"
       ELSE "Dynamic"

\* the tag of a root whatever the kind of its index variable
doParallelizeReduction(K, indexVar, tensor) ==
  IF \/ Len(getAncestors(K, indexVar)) # 1
     \/ "Assemble" \in K.properties
     \/ \E i \in 1..Len(K.resultVars) : ~hasInsert(IteratorAt(K, getResultTensorPath(K), i))
  THEN "Serial"
  ELSE doParallelizeUnguarded(K, indexVar, tensor)

\* Static on a long path only when every step after the first is full
doParallelizeEvery(K, indexVar, tensor) ==
  IF \/ Len(getAncestors(K, indexVar)) # 1
     \/ isReduction(K, indexVar)
     \/ "Assemble" \in K.properties
     \/ \E i \in 1..Len(K.resultVars) : ~hasInsert(IteratorAt(K, getResultTensorPath(K), i))
  THEN "Serial"
  ELSE IF Len(getTensorPath(K, tensor).ivars) <= 2 THEN "Static"
  ELSE IF \A i \in 2..Len(getTensorPath(K, tensor).ivars) :
            isFull(IteratorAt(K, getTensorPath(K, tensor), i))
       THEN "Static"
       ELSE "Dynamic"

doParallelize(K, indexVar, tensor) ==
  IF \/ Len(getAncestors(K, indexVar)) # 1
     \/ isReduction(K, indexVar)
     \/ "Assemble" \in K.properties
  THEN "Serial"
  ELSE LET resultPath == getResultTensorPath(K)
       IN IF \E i \in 1..Len(resultPath.ivars) : ~hasInsert(IteratorAt(K, resultPath, i))
          THEN "Serial"
          ELSE LET parallelizedAccess == getTensorPath(K, tensor)
                   size == Len(parallelizedAccess.ivars)
               IN IF size <= 2 THEN "Static"
                  ELSE IF \E i \in 2..size : isFull(IteratorAt(K, parallelizedAccess, i))
                       THEN "Static"
                       ELSE "Dynamic"

noneExhausted(its) ==
  LET stepIterLqEnd ==
        [n \in 1..Len(SelectSeq(its, LAMBDA it : ~isFull(it))) |->
           LET iter == SelectSeq(its, LAMBDA it : ~isFull(it))[n]
           IN Bin("Lt", getIteratorVar(iter), getEndVar(iter))]
  IN IF stepIterLqEnd # <<>> THEN conjunction(stepIterLqEnd)
     ELSE Bin("Lt", getIteratorVar(its[1]), getEndVar(its[1]))

allEqualTo(its, idx) ==
  IF its = <<>> THEN BoolLit(TRUE)
  ELSE conjunction([n \in 1..Len(its) |-> Bin("Eq", getIdxVar(its[n]), idx)])

allValidDerefs(its, guardedIters) ==
  LET guarded == SelectSeq(its, LAMBDA it : it \in guardedIters)
  IN IF guarded = <<>> THEN BoolLit(TRUE)
     ELSE conjunction([n \in 1..Len(guarded) |-> getValidVar(guarded[n])])

RECURSIVE indicatorMaskFrom(_, _, _)
indicatorMaskFrom(its, selected, i) ==
  IF i > Len(its) THEN 0
  ELSE (IF its[i] \in Range(selected) THEN Pow2(i - 1) ELSE 0)
         + indicatorMaskFrom(its, selected, i + 1)
indicatorMask(its, selected) == IntLit(indicatorMaskFrom(its, selected, 1))

removeIterator(idx, its) == SelectSeq(its, LAMBDA it : getIdxVar(it) # idx)

\* internal assertion failure of the compiler
IAssert(msg) == [k |-> "IAssert", msg |-> msg]

\* every case as an if of its own, none excluding another
createIfSequence(cases, lattice, switchExpr) ==
  Block([n \in 1..Len(cases) |->
           IfThenElse(IF defined(switchExpr) THEN Bin("Eq", cases[n][1], switchExpr)
                      ELSE cases[n][1],
                      cases[n][2])])

createIfStatements(cases, lattice, switchExpr) ==
  IF Len(cases) = 1 /\ isTrueLiteral(cases[1][1]) THEN cases[1][2]
  ELSE LET ifCases == SelectSeq(cases, LAMBDA cas : ~isTrueLiteral(cas[1]))
           elseCases == SelectSeq(cases, LAMBDA cas : isTrueLiteral(cas[1]))
       IN IF Len(elseCases) > 1 THEN IAssert("there should only be one true case")
          ELSE IF elseCases # <<>> THEN Case(ifCases \o elseCases, TRUE)
          ELSE IF defined(switchExpr) THEN Switch(ifCases, switchExpr)
          ELSE Case(ifCases, latticeIsFull(lattice))

(***************************************************************************)
(* lower_codegen: min and minWithIndicator.  Both return the merged        *)
(* coordinate (and the indicator) with the statements that compute it.     *)
(***************************************************************************)
minIdx(resultName, its) ==
  IF Len(its) > 1
  THEN [idx |-> Var(resultName), ind |-> Undef,
        stmts |-> <<VarAssign(Var(resultName),
                              Min([n \in 1..Len(its) |-> getIdxVar(its[n])]), TRUE)>>]
  ELSE [idx |-> getIdxVar(its[1]), ind |-> Undef, stmts |-> <<>>]

RECURSIVE indicatorSum(_, _, _)
indicatorSum(its, idx, i) ==
  LET bit == Bin("Mul", Cast(Bin("Eq", getIdxVar(its[i]), idx)), IntLit(Pow2(i - 1)))
  IN IF i = Len(its) THEN bit ELSE Bin("Add", bit, indicatorSum(its, idx, i + 1))
minWithIndicator(resultName, its) ==
  [idx |-> Var(resultName), ind |-> Var(resultName \o "_ind"),
   stmts |-> <<VarAssign(Var(resultName),
                         Min([n \in 1..Len(its) |-> getIdxVar(its[n])]), TRUE),
               VarAssign(Var(resultName \o "_ind"),
                         indicatorSum(its, Var(resultName), 1), TRUE)>>]


(***************************************************************************)
(* lower.cpp: the lowering recursion.  The mutable part of Ctx is threaded *)
(* through as cx = [temporaries, idxVars, valsCapacity].                   *)
(***************************************************************************)
\* initialize pos variables: B2_pos = B2_pos_arr[B1_pos]
RECURSIVE initRangeIterators(_, _, _, _, _)
initRangeIterators(K, its, n, emitMerge, acc) ==
  IF n > Len(its) THEN acc
  ELSE LET iterator == its[n]
           r == IF hasCoordPosIter(iterator)
                THEN getPosIter(iterator, getPosVar(getParent(K, iterator)))
                ELSE getCoordIter(K, iterator)
           c1 == PushIfDefined(acc.code, r[1])
           c2 == IF emitMerge
                 THEN c1 \o <<VarAssign(getIteratorVar(iterator), r[2], TRUE),
                              VarAssign(getEndVar(iterator), r[3], TRUE)>>
                 ELSE c1
       IN initRangeIterators(K, its, n + 1, emitMerge,
                             [code |-> c2, iterBegin |-> r[2], iterEnd |-> r[3]])

\* walk down the insert levels of the result that start at initIterator
RECURSIVE initInsertLevels(_, _, _, _, _)
initInsertLevels(K, initIterator, initBegin, initEnd, code) ==
  IF iterDefined(initIterator) /\ hasInsert(initIterator)
  THEN LET size == getSize(K, initIterator)
           b == simplify(Bin("Mul", initBegin, size))
           e == simplify(Bin("Mul", initEnd, size))
           c == PushIfDefined(code, getInsertInitCoords(initIterator, b, e))
           path == getResultTensorPath(K)
           next == IF initIterator.l = Len(path.ivars) THEN NoIterator
                   ELSE IteratorAt(K, path, initIterator.l + 1)
       IN initInsertLevels(K, next, b, e, c)
  ELSE [initIterator |-> initIterator, initBegin |-> initBegin,
        initEnd |-> initEnd, code |-> code]

\* initialization of the result level at indexVar when assembling
assembleInit(K, target, indexVar, resultIterator, cx) ==
  IF ~("Assemble" \in K.properties /\ iterDefined(resultIterator)) THEN <<>>
  ELSE
    LET c0 == IF hasAppend(resultIterator) /\ ~isBranchless(resultIterator)
              THEN <<VarAssign(getBeginVar(resultIterator), getPosVar(resultIterator), TRUE)>>
              ELSE <<>>
    IN IF hasAppend(getParent(K, resultIterator)) \/ resultIterator.l = 1
       THEN
         LET resultParentPos == getPosVar(getParent(K, resultIterator))
             w == initInsertLevels(K, resultIterator, resultParentPos,
                                   simplify(Bin("Add", resultParentPos, IntLit(1))), c0)
         IN IF iterDefined(w.initIterator)
            THEN PushIfDefined(w.code,
                   getAppendInitEdges(K, w.initIterator, w.initBegin, w.initEnd))
            ELSE IF "Compute" \in K.properties /\ resultIterator.l # 1
            THEN
              LET vals == Values(getTensor(resultIterator))
                  newCapacity == Bin("Mul", IntLit(2), w.initEnd)
                  resizeBody == Block(<<Allocate(vals, newCapacity, TRUE),
                                        VarAssign(cx.valsCapacity, newCapacity, FALSE)>>)
                  maybeResizeVals ==
                    IfThenElse(Bin("Lte", cx.valsCapacity, w.initEnd), resizeBody)
                  nextIdxVars == SubSeq(K.resultVars, resultIterator.l, Len(K.resultVars))
                  iterVar == Var("p" \o getTensor(resultIterator))
                  zeroLoop == For(iterVar, w.initBegin, w.initEnd,
                                  Store(target.tensor, iterVar, IntLit(0)), "Serial")
              IN Append(w.code, maybeResizeVals)
                   \o (IF needsZeroVars(K, nextIdxVars) THEN <<zeroLoop>> ELSE <<>>)
            ELSE w.code
       ELSE c0

\* initialize sequential access idx variables: int kB = B1_idx_arr[B1_pos]
RECURSIVE initDerived(_, _, _, _)
initDerived(K, its, n, acc) ==
  IF n > Len(its) THEN acc
  ELSE LET iterator == its[n]
           r == IF hasCoordPosIter(iterator)
                THEN getPosAccess(iterator, getPosVar(iterator))
                ELSE getCoordAccess(K, iterator, getPosVar(getParent(K, iterator)),
                                    getIdxVar(iterator))
           c1 == Append(PushIfDefined(acc.code, r[1]),
                        VarAssign(getDerivedVar(iterator), simplify(r[2]), TRUE))
       IN initDerived(K, its, n + 1,
            IF ~isLiteral(r[3])
            THEN [code |-> Append(c1, VarAssign(getValidVar(iterator), r[3], TRUE)),
                  guarded |-> acc.guarded \cup {iterator}]
            ELSE [code |-> c1, guarded |-> acc.guarded])

\* initialize random access pos variables: D1_pos = (D0_pos * 3) + k
RECURSIVE initLocate(_, _, _, _, _, _)
initLocate(K, its, n, resultIterator, idxVars, acc) ==
  IF n > Len(its) THEN acc
  ELSE LET iterator == its[n]
           r == getLocate(K, iterator, getPosVar(getParent(K, iterator)),
                          idxVars[LevelName(iterator)])
           c1 == Append(PushIfDefined(acc.code, r[1]),
                        VarAssign(getPosVar(iterator), simplify(r[2]), TRUE))
       IN initLocate(K, its, n + 1, resultIterator, idxVars,
            IF ~isLiteral(r[3]) /\ iterator # resultIterator
            THEN [code |-> Append(c1, VarAssign(getValidVar(iterator), r[3], TRUE)),
                  guarded |-> acc.guarded \cup {iterator}]
            ELSE [code |-> c1, guarded |-> acc.guarded])

\* segendVar of the range iterators that are not unique
initSegend(its) ==
  LET nonUnique == SelectSeq(its, LAMBDA it : hasCoordPosIter(it) /\ ~isUnique(it))
  IN [n \in 1..Len(nonUnique) |->
        VarAssign(getSegendVar(nonUnique[n]),
                  Bin("Add", getPosVar(nonUnique[n]), IntLit(1)), TRUE)]

\* resize of the values array when assembling and computing an appended result
\* the capacity doubled from the position instead of the new end
maybeResizeValsFromPos(K, indexVar, resultIterator, cx) ==
  IF /\ "Compute" \in K.properties
     /\ "Assemble" \in K.properties
     /\ iterDefined(resultIterator)
     /\ hasAppend(resultIterator)
     /\ resultIterator.l = Len(K.resultVars)
  THEN LET vals == Values(getTensor(resultIterator))
           newValsEnd == Bin("Add", getPosVar(resultIterator), IntLit(1))
           newCapacity == Bin("Mul", IntLit(2), getPosVar(resultIterator))
           doResize == Block(<<Allocate(vals, newCapacity, TRUE),
                               VarAssign(cx.valsCapacity, newCapacity, FALSE)>>)
       IN IfThenElse(Bin("Lte", cx.valsCapacity, newValsEnd), doResize)
  ELSE NoStmt

maybeResizeValsOf(K, indexVar, resultIterator, cx) ==
  IF /\ "Compute" \in K.properties
     /\ "Assemble" \in K.properties
     /\ iterDefined(resultIterator)
     /\ hasAppend(resultIterator)
     /\ resultIterator.l = Len(K.resultVars)
  THEN LET vals == Values(getTensor(resultIterator))
           newValsEnd == Bin("Add", getPosVar(resultIterator), IntLit(1))
           newCapacity == Bin("Mul", IntLit(2), newValsEnd)
           doResize == Block(<<Allocate(vals, newCapacity, TRUE),
                               VarAssign(cx.valsCapacity, newCapacity, FALSE)>>)
       IN IfThenElse(Bin("Lte", cx.valsCapacity, newValsEnd), doResize)
  ELSE NoStmt

\* the branchless ancestors of the result level that was just assembled
RECURSIVE branchlessWalk(_, _, _, _, _)
branchlessWalk(K, resIter, emitAssemble, idxVars, stmts) ==
  IF ~isBranchless(resIter) THEN stmts
  ELSE
    LET resPos == getPosVar(resIter)
        s1 == IF emitAssemble /\ hasAppend(resIter)
              THEN PushIfDefined(stmts,
                     getAppendEdges(K, resIter, getPosVar(getParent(K, resIter)),
                                    Bin("Sub", resPos, IntLit(1)), resPos))
              ELSE stmts
        up == getParent(K, resIter)
        upPos == getPosVar(up)
    IN IF ~iterDefined(getParent(K, up)) THEN s1
       ELSE
         LET s2 == IF emitAssemble /\ hasAppend(up)
                   THEN PushIfDefined(s1, getAppendCoord(up, upPos, idxVars[LevelName(up)]))
                   ELSE s1
             s3 == IF hasAppend(up)
                   THEN PushIfDefined(
                          Append(s2, VarAssign(upPos, Bin("Add", upPos, IntLit(1)), FALSE)),
                          getAppendInitEdges(K, up, Bin("Sub", upPos, IntLit(1)), upPos))
                   ELSE s2
         IN branchlessWalk(K, up, emitAssemble, idxVars, s3)

\* the coordinate assembled whatever the child loops appended
assemblyStepUnguarded(K, resultIterator, ivarCase, idx, idxVars) ==
  IF ~iterDefined(resultIterator) \/ "Assemble" \notin K.properties THEN <<>>
  ELSE IF hasAppend(resultIterator)
  THEN <<Block(<<getAppendCoord(resultIterator, getPosVar(resultIterator), idx),
                 VarAssign(getPosVar(resultIterator),
                           Bin("Add", getPosVar(resultIterator), IntLit(1)), FALSE)>>)>>
  ELSE <<>>

\* assembly of the result coordinate inside a case body
assemblyStep(K, resultIterator, ivarCase, idx, idxVars) ==
  IF ~iterDefined(resultIterator) THEN <<>>
  ELSE
    LET emitAssemble == "Assemble" \in K.properties
        nextResultIterator ==
          IF ivarCase = "LAST_FREE" THEN NoIterator
          ELSE IteratorAt(K, getResultTensorPath(K), resultIterator.l + 1)
    IN IF iterDefined(nextResultIterator) /\ isBranchless(nextResultIterator) THEN <<>>
       ELSE
         LET resultPos == getPosVar(resultIterator)
             a1 == IF emitAssemble
                   THEN IF hasAppend(resultIterator)
                        THEN PushIfDefined(<<>>, getAppendCoord(resultIterator, resultPos, idx))
                        ELSE PushIfDefined(<<>>, getInsertCoord(resultIterator, resultPos, idx))
                   ELSE <<>>
             a2 == IF hasAppend(resultIterator) /\ (emitAssemble \/ ivarCase = "LAST_FREE")
                   THEN Append(a1, VarAssign(resultPos, Bin("Add", resultPos, IntLit(1)), FALSE))
                   ELSE a1
             assemblyStmts == branchlessWalk(K, resultIterator, emitAssemble, idxVars, a2)
         IN IF assemblyStmts = <<>> THEN <<>>
            ELSE IF iterDefined(nextResultIterator) /\ hasAppend(nextResultIterator)
            THEN <<IfThenElse(Bin("Lt", getBeginVar(nextResultIterator),
                                  getPosVar(nextResultIterator)),
                              Block(assemblyStmts))>>
            ELSE <<Block(assemblyStmts)>>

\* every sequential access variable moves on, whatever it points at
\* the comparisons of the increments inverted
incrementUnequal(its, idx, ind, mergeWithSwitch) ==
  [n \in 1..Len(its) |->
     LET iterator == its[n]
         ivar == getIteratorVar(iterator)
         incExpr ==
           IF mergeWithSwitch
           THEN Cast(Bin("Eq", Bin("BitAnd", ind, IntLit(Pow2(n - 1))), IntLit(0)))
           ELSE IF isFull(iterator) THEN IntLit(1)
           ELSE Cast(Bin("Neq", getIdxVar(iterator), idx))
     IN VarAssign(ivar, Bin("Add", ivar, incExpr), FALSE)]

\* bit i + 1 of the indicator for the i-th iterator
incrementShifted(its, idx, ind, mergeWithSwitch) ==
  [n \in 1..Len(its) |->
     LET iterator == its[n]
         ivar == getIteratorVar(iterator)
         incExpr ==
           IF mergeWithSwitch
           THEN Cast(Bin("Neq", Bin("BitAnd", ind, IntLit(Pow2(n))), IntLit(0)))
           ELSE IF getIdxVar(iterator) = idx \/ isFull(iterator) THEN IntLit(1)
           ELSE Cast(Bin("Eq", getIdxVar(iterator), idx))
     IN VarAssign(ivar, Bin("Add", ivar, incExpr), FALSE)]

incrementAll(its, idx, ind, mergeWithSwitch) ==
  [n \in 1..Len(its) |->
     VarAssign(getIteratorVar(its[n]), Bin("Add", getIteratorVar(its[n]), IntLit(1)), FALSE)]

\* increment of the sequential access variables after the cases
incrementIterators(its, idx, ind, mergeWithSwitch) ==
  [n \in 1..Len(its) |->
     LET iterator == its[n]
         ivar == getIteratorVar(iterator)
         incExpr ==
           IF mergeWithSwitch
           THEN Cast(Bin("Neq", Bin("BitAnd", ind, IntLit(Pow2(n - 1))), IntLit(0)))
           ELSE IF getIdxVar(iterator) = idx \/ isFull(iterator) THEN IntLit(1)
           ELSE Cast(Bin("Eq", getIdxVar(iterator), idx))
     IN VarAssign(ivar, Bin("Add", ivar, incExpr), FALSE)]

RECURSIVE productOf(_, _)
productOf(factors, n) ==
  IF n = 1 THEN factors[1] ELSE MulNode(productOf(factors, n - 1), factors[n])

\* name of a lattice point: the tensors whose iterators it merges
RECURSIVE PointName(_, _)
PointName(its, n) == IF n > Len(its) THEN "" ELSE its[n].t \o PointName(its, n + 1)

\* a switch from two range iterators on
mergeWithSwitchFromTwo(lpRangeIterators, lpLattice) ==
  /\ Len(lpRangeIterators) >= 2
  /\ Len(lpRangeIterators) <= UIntBits
  /\ Len(lpLattice) = Pow2(Len(lpRangeIterators)) - 1

\* the merge of a point's range iterators is done with a switch
mergeWithSwitchOf(lpRangeIterators, lpLattice) ==
  /\ Len(lpRangeIterators) > 2
  /\ Len(lpRangeIterators) <= UIntBits
  /\ Len(lpLattice) = Pow2(Len(lpRangeIterators)) - 1

\* the statements every case body starts with
caseHead(F, P, lq) ==
  <<CaseMark(F.indexVar, PointName(lq.iterators, 1), P.idx)>>
    \o (IF stmtDefined(P.maybeResizeVals) /\ Len(P.lpLattice) = 1
        THEN <<P.maybeResizeVals>> ELSE <<>>)

\* the expression of a case computed whatever the compute case
caseComputeAlways(K, F, ivarCase, single, ch) ==
  IF "Compute" \in K.properties
  THEN <<emitComputeExpr(K, F.target, F.indexVar, ch.lqexpr, ch.cx.temporaries,
                         "Accumulate" \in K.properties)>>
  ELSE <<>>

\* the statement that computes the expression of a case (lines 619-699)
caseCompute(K, F, ivarCase, single, ch) ==
  IF "Compute" \in K.properties /\ ivarCase \in {"LAST_FREE", "BELOW_LAST_FREE"}
  THEN IF single
       THEN <<emitComputeExpr(K, F.target, F.indexVar, ch.lqexpr, ch.cx.temporaries,
                              "Accumulate" \in K.properties)>>
       ELSE IF getAvailableExpressions(ch.lqexpr, getAncestors(K, F.indexVar))
                 \o ch.childVars = <<>>
            THEN <<IAssert("factors.size() > 0")>>
            ELSE <<emitComputeExpr(K, F.target, F.indexVar,
                     productOf(getAvailableExpressions(ch.lqexpr, getAncestors(K, F.indexVar))
                                 \o ch.childVars,
                               Len(getAvailableExpressions(ch.lqexpr,
                                                           getAncestors(K, F.indexVar))
                                     \o ch.childVars)),
                     ch.cx.temporaries, "Accumulate" \in K.properties)>>
  ELSE <<>>

\* the condition under which the case of lattice point lq runs (lines 799-808)
caseCondition(P, lq) ==
  IF P.mergeWithSwitch
  THEN indicatorMask(P.lpRangeIterators, removeIterator(P.idx, lq.rangeIterators))
  ELSE simplify(Bin("And", allEqualTo(removeIterator(P.idx, lq.rangeIterators), P.idx),
                    allValidDerefs(SeqRemove(lq.iterators, lq.rangeIterators),
                                   P.guardedIters)))

\* the loop of a lattice point around its cases (lines 844-852)
\* the merge form whatever emitMerge
mergeLoopAlways(K, F, P, cases) ==
  While(noneExhausted(P.lpRangeIterators),
        Block((P.derived \o Append(P.mergeCode, createIfStatements(cases, P.lpLattice, P.ind)))
                \o incrementIterators(P.lpRangeIterators, P.idx, P.ind, P.mergeWithSwitch)))

mergeLoopOf(K, F, P, cases) ==
  IF F.emitMerge
  THEN While(noneExhausted(P.lpRangeIterators),
             Block((P.derived \o Append(P.mergeCode, createIfStatements(cases, P.lpLattice, P.ind)))
                     \o incrementIterators(P.lpRangeIterators, P.idx, P.ind,
                                           P.mergeWithSwitch)))
  ELSE For(getIteratorVar(P.lpRangeIterators[1]), F.iterBegin, F.iterEnd,
           Block(P.derived \o Append(P.mergeCode, createIfStatements(cases, P.lpLattice, P.ind))),
           doParallelize(K, F.indexVar, getTensor(P.lpRangeIterators[1])))

RECURSIVE lower(_, _, _, _, _), lowerLoops(_, _, _, _), lowerCases(_, _, _, _, _),
          lowerChildren(_, _, _, _, _, _)

\* the loop nest r of the child joins the case body
childLowered(K, F, ivarCase, single, c, body, lqexpr, childVars, r) ==
  lowerChildren(K, F, ivarCase, single, c + 1,
                [caseBody |-> body \o r.code, lqexpr |-> lqexpr, cx |-> r.cx,
                 childVars |-> childVars])

\* a child at or below the last free variable computes childExpr into a temporary
lowerChildTemporary(K, F, ivarCase, single, c, acc, child, childExpr) ==
  IF ~exprDefined(childExpr) THEN lowerChildren(K, F, ivarCase, single, c + 1, acc)
  ELSE childLowered(K, F, ivarCase, single, c,
         IF "Compute" \in K.properties
         THEN Append(acc.caseBody, VarAssign(Var("t" \o child), IntLit(0), TRUE))
         ELSE acc.caseBody,
         replace(acc.lqexpr, childExpr, Access("t" \o child, <<>>)),
         IF single THEN acc.childVars
         ELSE Append(acc.childVars, Access("t" \o child, <<>>)),
         lower(K, Target(Var("t" \o child), Undef), child, childExpr,
               [acc.cx EXCEPT !.temporaries = @ \cup {"t" \o child}]))

\* the recursive calls that emit the children of indexVar in the iteration graph
lowerChildren(K, F, ivarCase, single, c, acc) ==
  IF c > Len(getChildren(K, F.indexVar)) THEN acc
  ELSE IF ivarCase \in {"LAST_FREE", "BELOW_LAST_FREE"}
  THEN lowerChildTemporary(K, F, ivarCase, single, c, acc, getChildren(K, F.indexVar)[c],
         IF single
         THEN getSubExprOld(acc.lqexpr, getDescendants(K, getChildren(K, F.indexVar)[c]))
         ELSE getSubExpr(acc.lqexpr, getDescendants(K, getChildren(K, F.indexVar)[c])))
  ELSE childLowered(K, F, ivarCase, single, c, acc.caseBody, acc.lqexpr, acc.childVars,
         lower(K, F.target, getChildren(K, F.indexVar)[c], acc.lqexpr, acc.cx))

\* the case of lattice point lq, its children lowered into ch
caseEmitted(K, F, P, q, acc, lq, ivarCase, single, ch) ==
  lowerCases(K, F, P, q + 1,
    [cases |-> Append(acc.cases,
                 <<caseCondition(P, lq),
                   Block((ch.caseBody \o caseCompute(K, F, ivarCase, single, ch))
                           \o assemblyStep(K, F.resultIterator, ivarCase, P.idx,
                                           ch.cx.idxVars))>>),
     cx |-> ch.cx])

\* the case of lattice point lq, its available expressions emitted into av
lowerCase(K, F, P, q, acc, lq, ivarCase, single, av) ==
  caseEmitted(K, F, P, q, acc, lq, ivarCase, single,
    lowerChildren(K, F, ivarCase, single, 1,
                  [caseBody |-> av.stmts, lqexpr |-> av.expr,
                   cx |-> [acc.cx EXCEPT !.temporaries = av.temporaries],
                   childVars |-> <<>>]))

\* one case per lattice point lq of the sub-lattice rooted at lp
lowerCases(K, F, P, q, acc) ==
  IF q > Len(P.lpLattice) THEN acc
  ELSE lowerCase(K, F, P, q, acc, P.lpLattice[q], getComputeCase(K, F.indexVar),
         Len(getChildren(K, F.indexVar)) = 1,
         IF "Compute" \in K.properties /\ getComputeCase(K, F.indexVar) = "ABOVE_LAST_FREE"
         THEN emitAvailableExprs(K, F.indexVar, P.lpLattice[q].expr, acc.cx.temporaries,
                                 caseHead(F, P, P.lpLattice[q]))
         ELSE [expr |-> P.lpLattice[q].expr, temporaries |-> acc.cx.temporaries,
               stmts |-> caseHead(F, P, P.lpLattice[q])])

\* the cases cs of the point are wrapped in its loop
loopEmitted(K, F, n, acc, P, cs) ==
  lowerLoops(K, F, n + 1,
             [loops |-> Append(acc.loops, mergeLoopOf(K, F, P, cs.cases)), cx |-> cs.cx])

\* the cases of the point P
loopPoint(K, F, n, acc, idxVars, P) ==
  loopEmitted(K, F, n, acc, P,
              lowerCases(K, F, P, 1,
                         [cases |-> <<>>, cx |-> [acc.cx EXCEPT !.idxVars = idxVars]]))

\* the locate iterators are positioned (lc) at the merged coordinate m.idx
loopLocated(K, F, n, acc, lp, lpLattice, d, m, idxVars, lc, maybeResizeVals) ==
  loopPoint(K, F, n, acc, idxVars,
    [lpLattice |-> lpLattice, lpRangeIterators |-> lp.rangeIterators,
     idx |-> m.idx, ind |-> m.ind,
     mergeWithSwitch |-> mergeWithSwitchOf(lp.rangeIterators, lpLattice),
     guardedIters |-> lc.guarded, maybeResizeVals |-> maybeResizeVals,
     derived |-> d.code,
     mergeCode |-> (lc.code \o initSegend(lp.rangeIterators))
                     \o (IF stmtDefined(maybeResizeVals) /\ Len(lpLattice) > 1
                         THEN <<maybeResizeVals>> ELSE <<>>)])

\* the range iterators are dereferenced (d) and merged into a coordinate (m)
loopMerged(K, F, n, acc, lp, lpLattice, d, m) ==
  LET merged == {LevelName(it) : it \in Range(lp.iterators)}
                  \cup (IF iterDefined(F.resultIterator)
                        THEN {LevelName(F.resultIterator)} ELSE {})
      located == SeqRemove(lp.iterators, lp.rangeIterators)
                   \o (IF iterDefined(F.resultIterator) /\ hasInsert(F.resultIterator)
                       THEN <<F.resultIterator>> ELSE <<>>)
  IN loopLocated(K, F, n, acc, lp, lpLattice, d, m,
                 [nm \in merged |-> m.idx] @@ acc.cx.idxVars,
                 initLocate(K, located, 1, F.resultIterator,
                            [nm \in merged |-> m.idx] @@ acc.cx.idxVars,
                            [code |-> m.stmts, guarded |-> d.guarded]),
                 maybeResizeValsOf(K, F.indexVar, F.resultIterator, acc.cx))

\* one loop per lattice point lp
lowerLoops(K, F, n, acc) ==
  IF n > Len(F.lattice) THEN acc
  ELSE loopMerged(K, F, n, acc, F.lattice[n], getSubLattice(F.lattice, F.lattice[n]),
         initDerived(K, F.lattice[n].rangeIterators, 1, [code |-> <<>>, guarded |-> {}]),
         IF mergeWithSwitchOf(F.lattice[n].rangeIterators,
                              getSubLattice(F.lattice, F.lattice[n]))
         THEN minWithIndicator(F.indexVar, F.lattice[n].rangeIterators)
         ELSE minIdx(F.indexVar, F.lattice[n].rangeIterators))

\* the loops ls follow the initialization; an appended result level gets its edges
\* the segment of the result closed one position after the last one appended
lowerEmittedBeyond(K, resultIterator, init, ls) ==
  [code |-> IF /\ "Assemble" \in K.properties
               /\ iterDefined(resultIterator)
               /\ hasAppend(resultIterator)
               /\ ~isBranchless(resultIterator)
            THEN PushIfDefined(init \o ls.loops,
                   getAppendEdges(K, resultIterator,
                                  getPosVar(getParent(K, resultIterator)),
                                  getBeginVar(resultIterator),
                                  Bin("Add", getPosVar(resultIterator), IntLit(1))))
            ELSE init \o ls.loops,
   cx |-> ls.cx]

lowerEmitted(K, resultIterator, init, ls) ==
  [code |-> IF /\ "Assemble" \in K.properties
               /\ iterDefined(resultIterator)
               /\ hasAppend(resultIterator)
               /\ ~isBranchless(resultIterator)
            THEN PushIfDefined(init \o ls.loops,
                   getAppendEdges(K, resultIterator,
                                  getPosVar(getParent(K, resultIterator)),
                                  getBeginVar(resultIterator), getPosVar(resultIterator)))
            ELSE init \o ls.loops,
   cx |-> ls.cx]

\* the range iterators of the lattice are initialized (ri)
lowerRange(K, target, indexVar, cx, lattice, resultIterator, emitMerge, ri) ==
  lowerEmitted(K, resultIterator,
    ri.code \o assembleInit(K, target, indexVar, resultIterator, cx),
    lowerLoops(K, [target |-> target, indexVar |-> indexVar, lattice |-> lattice,
                   resultIterator |-> resultIterator, emitMerge |-> emitMerge,
                   iterBegin |-> ri.iterBegin, iterEnd |-> ri.iterEnd],
               1, [loops |-> <<>>, cx |-> cx]))

\* the merge lattice of indexExpr at indexVar is built
lowerLattice(K, target, indexVar, cx, lattice, resultIterator) ==
  LET emitMerge == \/ Len(latticeRangeIteratorsOf(lattice)) > 1
                   \/ ~isUnique(latticeRangeIteratorsOf(lattice)[1])
  IN lowerRange(K, target, indexVar, cx, lattice, resultIterator, emitMerge,
                initRangeIterators(K, latticeRangeIteratorsOf(lattice), 1, emitMerge,
                                   [code |-> <<>>, iterBegin |-> Undef, iterEnd |-> Undef]))

\* lower(target, indexVar, indexExpr, exhausted, ctx); the set of exhausted
\* accesses is passed down and never read
lower(K, target, indexVar, indexExpr, cx) ==
  lowerLattice(K, target, indexVar, cx, MergeLatticeMake(K, indexExpr, indexVar),
               IteratorOf(K, getResultTensorPath(K), indexVar))

(***************************************************************************)
(* lower.cpp: Stmt lower(TensorVar, functionName, properties, allocSize).  *)
(***************************************************************************)
\* first loop over the result levels: level initialization and pos variables
RECURSIVE initLevels(_, _, _)
initLevels(K, l, acc) ==
  IF l > Len(K.resultVars) THEN acc
  ELSE
    LET iter == IteratorAt(K, getResultTensorPath(K), l)
        sz == IF hasAppend(iter) THEN IntLit(0)
              ELSE simplify(Bin("Mul", acc.prevSz, getSize(K, iter)))
        init1 == IF "Assemble" \in K.properties
                 THEN PushIfDefined(acc.init,
                        IF hasAppend(iter) THEN getAppendInitLevel(K, iter, acc.prevSz, sz)
                        ELSE getInsertInitLevel(iter, acc.prevSz, sz))
                 ELSE acc.init
        body1 == IF hasAppend(iter)
                    /\ ("Assemble" \in K.properties \/ l = Len(K.resultVars))
                 THEN Append(acc.body, VarAssign(getPosVar(iter), IntLit(0), TRUE))
                 ELSE acc.body
    IN initLevels(K, l + 1, [init |-> init1, body |-> body1, prevSz |-> sz])

\* second loop over the result levels: level finalization
RECURSIVE finalizeLevels(_, _, _)
finalizeLevels(K, l, acc) ==
  IF l > Len(K.resultVars) THEN acc
  ELSE
    LET iter == IteratorAt(K, getResultTensorPath(K), l)
        sz == IF hasAppend(iter) THEN getPosVar(iter)
              ELSE simplify(Bin("Mul", acc.prevSz, getSize(K, iter)))
        finalizeLevel == IF hasAppend(iter)
                         THEN getAppendFinalizeLevel(K, iter, acc.prevSz, sz)
                         ELSE getInsertFinalizeLevel(iter, acc.prevSz, sz)
    IN finalizeLevels(K, l + 1,
         [finalize |-> PushIfDefined(acc.finalize, finalizeLevel), prevSz |-> sz])

\* the loop nests of the roots of the iteration graph, in order
RECURSIVE lowerRoots(_, _, _, _)
rootLowered(K, target, n, acc, loopNest) ==
  lowerRoots(K, target, n + 1, [body |-> acc.body \o loopNest.code, cx |-> loopNest.cx])
lowerRoots(K, target, n, acc) ==
  IF n > Len(getRoots(K)) THEN acc
  ELSE rootLowered(K, target, n, acc, lower(K, target, getRoots(K)[n], K.rhs, acc.cx))

\* statements that set up the values of the result before the loop nests
valsInit(K, target, resultIterator, prevSz) ==
  LET name == K.name
      emitAssemble == "Assemble" \in K.properties
      sz == IF equalsScalar(prevSz, 0)
            THEN (IF emitAssemble THEN IntLit(K.allocSize)
                  ELSE ValuesSize(getTensor(resultIterator)))
            ELSE prevSz
      init == IF emitAssemble
              THEN <<VarAssign(Var(name \o "_vals_capacity"), sz, TRUE),
                     Allocate(target.tensor, sz, FALSE)>>
              ELSE <<>>
      body == IF "Accumulate" \notin K.properties
              THEN IF Len(K.resultVars) = 0
                   THEN IF equalsScalar(sz, 1)
                        THEN <<Store(target.tensor, IntLit(0), IntLit(0))>>
                        ELSE <<IAssert("sz == 1")>>
                   ELSE IF /\ hasInsert(resultIterator)
                           /\ needsZero(K)
                           /\ (~isLiteral(sz) \/ ~equalsScalar(sz, K.allocSize))
                   THEN <<For(Var("p" \o name), IntLit(0), sz,
                              Store(target.tensor, Var("p" \o name), IntLit(0)), "Serial")>>
                   ELSE <<>>
              ELSE <<>>
  IN [init |-> init, body |-> body]

\* the body of the lowered function
\* the finalization put before the loop nests
composeBodyFinalizeFirst(parts) ==
  Block(((parts.init \o <<BlankLine>>) \o parts.finalize) \o parts.body)

composeBody(parts) ==
  LET body1 == IF parts.init # <<>> THEN parts.init \o <<BlankLine>> \o parts.body
               ELSE parts.body
      body2 == IF parts.finalize # <<>> THEN body1 \o <<BlankLine>> \o parts.finalize
               ELSE body1
  IN Block(body2)

\* the initialization, loop nests and finalization of a statement with index
\* variables (lines 897-1014)
lowerTensor(K, cx0, resultIterator, target, lv) ==
  LET emitAssemble == "Assemble" \in K.properties
      emitCompute == "Compute" \in K.properties
      vi == IF emitCompute THEN valsInit(K, target, resultIterator, lv.prevSz)
            ELSE [init |-> <<>>, body |-> <<>>]
      fl == IF emitAssemble
            THEN finalizeLevels(K, 1, [finalize |-> <<>>, prevSz |-> IntLit(1)])
            ELSE [finalize |-> <<>>, prevSz |-> IntLit(1)]
      finalize ==
        IF emitAssemble /\ ~emitCompute
        THEN fl.finalize \o
               <<Allocate(target.tensor, fl.prevSz, FALSE),
                 VarAssign(ValuesSize(getTensor(resultIterator)), fl.prevSz, FALSE)>>
        ELSE fl.finalize
  IN [init |-> lv.init \o vi.init,
      body |-> lowerRoots(K, target, 1, [body |-> lv.body \o vi.body, cx |-> cx0]).body,
      finalize |-> finalize]

\* the body of a statement without index variables (lines 1016-1032)
\* the values allocated whatever the properties
lowerScalarAllocating(K) ==
  [init |-> <<Allocate(Values(K.name), IntLit(1), FALSE)>>,
   body |-> IF "Compute" \in K.properties
            THEN <<Store(Values(K.name), IntLit(0), lowerToScalarExpression(K, K.rhs, {}))>>
            ELSE <<>>,
   finalize |-> <<>>]

lowerScalar(K) ==
  [init |-> IF "Assemble" \in K.properties
            THEN <<Allocate(Values(K.name), IntLit(1), FALSE)>> ELSE <<>>,
   body |-> IF "Compute" \in K.properties
            THEN <<Store(Values(K.name), IntLit(0), lowerToScalarExpression(K, K.rhs, {}))>>
            ELSE <<>>,
   finalize |-> <<>>]

lowerStatement(K, cx0, resultPath) ==
  composeBody(
    IF Len(getRoots(K)) > 0
    THEN lowerTensor(K, cx0, IteratorAt(K, resultPath, Len(resultPath.ivars)),
                     Target(Values(getTensor(IteratorAt(K, resultPath, Len(resultPath.ivars)))),
                            getPosVar(IteratorAt(K, resultPath, Len(resultPath.ivars)))),
                     initLevels(K, 1, [init |-> <<>>, body |-> <<>>, prevSz |-> IntLit(1)]))
    ELSE lowerScalar(K))

lowerBody(K0) ==
  LET K == [K0 EXCEPT !.properties =
              @ \cup (IF K0.operator = "AddNode" THEN {"Accumulate"} ELSE {})]
  IN lowerStatement(K,
       [temporaries |-> {}, idxVars |-> <<>>,
        valsCapacity |-> IF "Assemble" \in K.properties /\ "Compute" \in K.properties
                         THEN Var(K.name \o "_vals_capacity") ELSE Undef],
       getResultTensorPath(K))


(***************************************************************************)
(* tensor_base.cpp: packing of coordinates into the storage of a format.   *)
(* Coordinates are records [loc, val]; begin and end count from 0.         *)
(***************************************************************************)
\* lexicographic order of two coordinate locations (std::sort of Coordinate)
RECURSIVE locLess(_, _, _)
locLess(a, b, d) ==
  IF d > Len(a) THEN FALSE
  ELSE IF a[d] # b[d] THEN a[d] < b[d]
  ELSE locLess(a, b, d + 1)

\* the coordinates of a set of locations, sorted, with the value of each
RECURSIVE sortCoords(_, _)
sortCoords(locs, val) ==
  IF locs = {} THEN <<>>
  ELSE LET first == CHOOSE a \in locs : \A b \in locs : ~locLess(b, a, 1)
       IN <<[loc |-> first, val |-> val[first]]>> \o sortCoords(locs \ {first}, val)

\* every entry of level i between begin and end, repeated ones too
getEveryEntry(coords, i, begin, end) ==
  [n \in 1..(end - begin) |-> coords[begin + n].loc[i]]

\* Count unique entries of level i between begin and end (assumes sorted)
RECURSIVE getUniqueEntries(_, _, _, _)
getUniqueEntries(coords, i, begin, end) ==
  IF begin = end THEN <<>>
  ELSE LET rest == getUniqueEntries(coords, i, begin + 1, end)
           curr == coords[begin + 1].loc[i]
       IN IF rest # <<>> /\ rest[1] = curr THEN rest ELSE <<curr>> \o rest

\* Scan to find segment range of children
RECURSIVE scanSegment(_, _, _, _, _)
scanSegment(coords, i, cend, end, j) ==
  IF cend < end /\ coords[cend + 1].loc[i] = j
  THEN scanSegment(coords, i, cend + 1, end, j)
  ELSE cend

RECURSIVE packTensor(_, _, _, _, _, _, _), packSegments(_, _, _, _, _, _, _, _, _)
\* the recursive calls for the index values js[n..] of level i
packSegments(dims, coords, cbegin, end, levels, i, js, n, st) ==
  IF n > Len(js) THEN st
  ELSE LET cend == scanSegment(coords, i, cbegin, end, js[n])
       IN packSegments(dims, coords, cend, end, levels, i, js, n + 1,
                       packTensor(dims, coords, cbegin, cend, levels, i + 1, st))

packTensor(dims, coords, begin, end, levels, i, st) ==
  IF i = Len(levels) + 1
  THEN [st EXCEPT !.vals = Append(@, IF begin < end THEN coords[begin + 1].val ELSE 0)]
  ELSE IF levels[i] = "d"
  THEN packSegments(dims, coords, begin, end, levels, i,
                    [j \in 1..dims[i] |-> j - 1], 1, st)
  ELSE LET indexValues == getUniqueEntries(coords, i, begin, end)
           st1 == [st EXCEPT !.pos[i] = Append(@, Len(st.idx[i]) + Len(indexValues)),
                             !.idx[i] = @ \o indexValues]
       IN packSegments(dims, coords, begin, end, levels, i, indexValues, 1, st1)

\* TensorBase::pack: the storage [pos, idx, vals] of sorted coordinates
pack(dims, levels, coords) ==
  IF Len(levels) = 0
  THEN [pos |-> <<>>, idx |-> <<>>, vals |-> <<coords[Len(coords)].val>>]
  ELSE packTensor(dims, coords, 0, Len(coords), levels, 1,
                  [pos |-> [l \in 1..Len(levels) |->
                              IF levels[l] = "d" THEN <<>> ELSE <<0>>],
                   idx |-> [l \in 1..Len(levels) |-> <<>>],
                   vals |-> <<>>])

\* the arguments of a kernel (packArguments): the arrays and properties of the
\* storage st of tensor t are bound in the environment
RECURSIVE bindLevels(_, _, _, _, _, _)
bindLevels(env, t, levels, dims, st, l) ==
  IF l > Len(levels) THEN env
  ELSE LET nm == t \o ToString(l)
           e1 == IF levels[l] = "d"
                 THEN SetVar(env, nm \o "_dimension", dims[l])
                 ELSE [env EXCEPT !.a = (nm \o "_pos" :> st.pos[l])
                                          @@ (nm \o "_idx" :> st.idx[l]) @@ @]
       IN bindLevels(e1, t, levels, dims, st, l + 1)
bindTensor(env, t, levels, dims, st) ==
  LET e1 == bindLevels(env, t, levels, dims, st, 1)
  IN [e1 EXCEPT !.a = (t \o "_vals" :> st.vals) @@ @,
                !.v = (t \o "_vals_size" :> Len(st.vals)) @@ @]


(***************************************************************************)
(* Dense reference semantics of a statement, and the reading of a result   *)
(* out of its storage.                                                     *)
(***************************************************************************)
RECURSIVE SumSeq(_)
SumSeq(q) == IF q = <<>> THEN 0 ELSE q[1] + SumSeq(Tail(q))
RECURSIVE SumOver(_, _)
SumOver(S, f) ==
  IF S = {} THEN 0
  ELSE LET x == CHOOSE y \in S : TRUE IN f[x] + SumOver(S \ {x}, f)

\* the value stored by an operand at a location it holds
Weight(t, loc) == 1 + SumSeq(loc) + (IF t = "c" THEN 2 ELSE 0)

\* all locations of a tensor of the given order
Locations(order, dim) == [1..order -> 0..(dim - 1)]

\* value of index expression e under a valuation of the index variables
RECURSIVE evalIndexExpr(_, _, _)
evalIndexExpr(e, operands, valuation) ==
  IF e.k = "Access"
  THEN LET loc == [n \in 1..Len(e.ivars) |-> valuation[e.ivars[n]]]
       IN IF loc \in operands[e.t] THEN Weight(e.t, loc) ELSE 0
  ELSE IF e.k = "AddNode"
  THEN evalIndexExpr(e.a, operands, valuation) + evalIndexExpr(e.b, operands, valuation)
  ELSE evalIndexExpr(e.a, operands, valuation) * evalIndexExpr(e.b, operands, valuation)

\* the right-hand side at result location loc, summed over the reduction variables
Reference(K, operands, loc) ==
  LET valuations == {f \in [Range(K.ivars) -> 0..(K.dim - 1)] :
                       \A n \in 1..Len(K.resultVars) : f[K.resultVars[n]] = loc[n]}
  IN SumOver(valuations, [f \in valuations |-> evalIndexExpr(K.rhs, operands, f)])

\* position at level l of the entry with coordinate c below position p of the
\* level above; -1 when the level does not hold c there
positionAt(env, K, t, l, p, c) ==
  IF p = -1 THEN -1
  ELSE IF K.formats[t][l] = "d" THEN p * K.dim + c
  ELSE LET nm == t \o ToString(l)
           pos == env.a[nm \o "_pos"]
           idx == env.a[nm \o "_idx"]
           held == {q \in pos[p + 1]..(pos[p + 2] - 1) :
                      q >= 0 /\ q < Len(idx) /\ idx[q + 1] = c}
       IN IF held = {} THEN -1 ELSE MinOf(held)
RECURSIVE positionOf(_, _, _, _, _)
positionOf(env, K, t, loc, l) ==
  IF l = 0 THEN 0
  ELSE positionAt(env, K, t, l, positionOf(env, K, t, loc, l - 1), loc[l])
\* the value of tensor t at a location, 0 where nothing is stored
valueAt(env, K, t, loc) ==
  LET p == positionOf(env, K, t, loc, Len(loc))
  IN IF p = -1 \/ p >= Len(env.a[t \o "_vals"]) THEN 0 ELSE env.a[t \o "_vals"][p + 1]
\* the whole result as a function of the location
resultOf(env, K) ==
  [loc \in Locations(Len(K.resultVars), K.dim) |-> valueAt(env, K, K.name, loc)]

\* Storage::getSize: number of positions of each level (level 0 has one)
RECURSIVE levelSize(_, _, _, _)
levelSize(env, K, t, l) ==
  IF l = 0 THEN 1
  ELSE IF K.formats[t][l] = "d" THEN levelSize(env, K, t, l - 1) * K.dim
  ELSE env.a[t \o ToString(l) \o "_pos"][levelSize(env, K, t, l - 1) + 1]
\* the first n elements of an array
Prefix(arr, n) == [p \in 1..n |-> arr[p]]
\* the index arrays and the values of the result, each up to its size
resultState(env, K) ==
  LET t == K.name
      order == Len(K.resultVars)
  IN [pos |-> [l \in 1..order |->
                 IF K.formats[t][l] = "d" THEN <<>>
                 ELSE Prefix(env.a[t \o ToString(l) \o "_pos"],
                             levelSize(env, K, t, l - 1) + 1)],
      idx |-> [l \in 1..order |->
                 IF K.formats[t][l] = "d" THEN <<>>
                 ELSE Prefix(env.a[t \o ToString(l) \o "_idx"],
                             levelSize(env, K, t, l))],
      vals |-> Prefix(env.a[t \o "_vals"], levelSize(env, K, t, order))]

(***************************************************************************)
(* The statements that are compiled and run.  The result is always a; a    *)
(* scalar has no levels.                                                   *)
(***************************************************************************)
Statement(resultVars, rhs, formats, ivars, parent) ==
  [name |-> "a", resultVars |-> resultVars, rhs |-> rhs, formats |-> formats,
   ivars |-> ivars, parent |-> parent, properties |-> {}, operator |-> "",
   allocSize |-> Dim, fixedDims |-> FALSE, dim |-> Dim]

bi == Access("b", <<"i">>)
ci == Access("c", <<"i">>)
cj == Access("c", <<"j">>)
Bij == Access("b", <<"i", "j">>)
OneVar == <<"i">>
TwoVars == <<"i", "j">>
Flat == [i |-> ""]
Chain == [i |-> "", j |-> "i"]

Statements ==
  << \* alpha = b(i) * c(i), sparse b and dense c
     Statement(<<>>, MulNode(bi, ci), [a |-> <<>>, b |-> <<"s">>, c |-> <<"d">>], OneVar, Flat),
     \* alpha = b(i) * c(i), sparse b and c
     Statement(<<>>, MulNode(bi, ci), [a |-> <<>>, b |-> <<"s">>, c |-> <<"s">>], OneVar, Flat),
     \* a(i) = b(i) + c(i), dense a, sparse b and c
     Statement(OneVar, AddNode(bi, ci), [a |-> <<"d">>, b |-> <<"s">>, c |-> <<"s">>], OneVar, Flat),
     \* a(i) = b(i) + c(i), all sparse
     Statement(OneVar, AddNode(bi, ci), [a |-> <<"s">>, b |-> <<"s">>, c |-> <<"s">>], OneVar, Flat),
     \* a(i) = b(i) * c(i), all sparse
     Statement(OneVar, MulNode(bi, ci), [a |-> <<"s">>, b |-> <<"s">>, c |-> <<"s">>], OneVar, Flat),
     \* a(i) = b(i), dense a, sparse b
     Statement(OneVar, bi, [a |-> <<"d">>, b |-> <<"s">>], OneVar, Flat),
     \* a(i) = B(i,j) * c(j), dense a, CSR B, dense c
     Statement(OneVar, MulNode(Bij, cj),
               [a |-> <<"d">>, b |-> <<"d", "s">>, c |-> <<"d">>], TwoVars, Chain),
     \* a(j) = B(i,j), dense a, CSR B
     Statement(<<"j">>, Bij, [a |-> <<"d">>, b |-> <<"d", "s">>], TwoVars, Chain),
     \* A(i,j) = B(i,j), CSR A and B
     Statement(TwoVars, Bij, [a |-> <<"d", "s">>, b |-> <<"d", "s">>], TwoVars, Chain),
     \* A(i,j) = B(i,j), dense A, doubly compressed B
     Statement(TwoVars, Bij, [a |-> <<"d", "d">>, b |-> <<"s", "s">>], TwoVars, Chain),
     \* alpha = beta
     Statement(<<>>, Access("b", <<>>), [a |-> <<>>, b |-> <<>>], <<>>, <<>>),
     \* alpha = beta * gamma
     Statement(<<>>, MulNode(Access("b", <<>>), Access("c", <<>>)),
               [a |-> <<>>, b |-> <<>>, c |-> <<>>], <<>>, <<>>),
     \* a(i) = b(i) + c(i), sparse a and b, dense c
     Statement(OneVar, AddNode(bi, ci), [a |-> <<"s">>, b |-> <<"s">>, c |-> <<"d">>], OneVar, Flat),
     \* A(i,j) = B(i,j), doubly compressed A, CSR B
     Statement(TwoVars, Bij, [a |-> <<"s", "s">>, b |-> <<"d", "s">>], TwoVars, Chain) >>

\* the operand tensors of a statement
operandsOf(K) == {getAccesses(K.rhs)[n].t : n \in 1..Len(getAccesses(K.rhs))}
orderOf(K, t) == Len(K.formats[t])


(***************************************************************************)
(* State.                                                                  *)
(*   kernel, operands : the statement of the result tensor and the         *)
(*                      locations each operand holds                       *)
(*   phase            : how far TensorBase has taken the result            *)
(*   module           : the lowered functions (content->module)            *)
(*   arguments        : the memory the kernels run on (content->arguments) *)
(*   prior            : the result as it was when compute was called       *)
(*   twin             : the result of the compute function lowered with    *)
(*                      Accumulate, run on the same arguments              *)
(*   fused            : the memory after the function lowered with         *)
(*                      {Assemble, Compute} ran on freshly packed operands *)
(*   merge            : the loop sequence of one lower() call, stepped one *)
(*                      loop iteration at a time                           *)
(*   sched            : the loops of a lowered function, visited in order  *)
(*   race             : two iterations of a parallel loop, interleaved     *)
(***************************************************************************)
VARIABLES kernel, operands, phase, module, arguments, prior, twin, fused,
          merge, sched, race
vars == <<kernel, operands, phase, module, arguments, prior, twin, fused,
          merge, sched, race>>

\* value read from memory that was allocated and never written
JunkVal == 7
\* largest value a caller leaves in the result before calling compute
MaxPrior == 1
\* most locations held by an operand of order two
MaxNnz == 2

\* the sets of locations an operand of a statement can hold; a scalar and a dense
\* operand hold every location
Patterns(K, t) ==
  IF \A l \in 1..orderOf(K, t) : K.formats[t][l] = "d"
  THEN {Locations(orderOf(K, t), K.dim)}
  ELSE {P \in SUBSET Locations(orderOf(K, t), K.dim) :
          orderOf(K, t) = 1 \/ Cardinality(P) <= MaxNnz}

dimsOf(K, t) == [l \in 1..orderOf(K, t) |-> K.dim]

\* packArguments: the operands packed in their formats, the result not yet
\* assembled
RECURSIVE bindOperands(_, _, _, _)
bindOperands(env, K, ops, ts) ==
  IF ts = {} THEN env
  ELSE LET t == CHOOSE x \in ts : TRUE
           st == pack(dimsOf(K, t), K.formats[t],
                      sortCoords(ops[t], [loc \in ops[t] |-> Weight(t, loc)]))
       IN bindOperands(bindTensor(env, t, K.formats[t], dimsOf(K, t), st),
                       K, ops, ts \ {t})
packArguments(K, ops, junk) ==
  LET order == orderOf(K, K.name)
      unassembled == [pos |-> [l \in 1..order |-> <<>>],
                      idx |-> [l \in 1..order |-> <<>>], vals |-> <<>>]
  IN bindTensor(bindOperands(EmptyEnv(junk), K, ops, operandsOf(K)),
                K.name, K.formats[K.name], dimsOf(K, K.name), unassembled)

Idle == [k |-> "idle"]

Init ==
  /\ \E n \in 1..Len(Statements), accum \in {"none", "operator", "property"},
        sizing \in {<<FALSE, 0>>, <<FALSE, 1>>, <<FALSE, Dim>>, <<TRUE, Dim>>,
                    <<TRUE, Dim + 1>>} :
       kernel = [Statements[n] EXCEPT
                   !.operator = IF accum = "operator" THEN "AddNode" ELSE "",
                   !.properties = IF accum = "property" THEN {"Accumulate"} ELSE {},
                   !.fixedDims = sizing[1], !.allocSize = sizing[2]]
  /\ operands \in {f \in [operandsOf(kernel) ->
                             UNION {Patterns(kernel, t) : t \in operandsOf(kernel)}] :
                     \A t \in operandsOf(kernel) : f[t] \in Patterns(kernel, t)}
  /\ phase = "packed"
  /\ module = <<>>
  /\ arguments = packArguments(kernel, operands, JunkVal)
  /\ prior = <<>>
  /\ twin = <<>>
  /\ fused = <<>>
  /\ merge = Idle
  /\ sched = Idle
  /\ race = Idle

withProperties(K, props) == [K EXCEPT !.properties = @ \cup props]
accumulates(K) == K.operator = "AddNode" \/ "Accumulate" \in K.properties

\* the functions lowered from a statement: the two of TensorBase::compile, and
\* the accumulating and the fused function the properties also allow
FunctionProperties ==
  [assemble |-> {"Assemble"}, compute |-> {"Compute"},
   accumulate |-> {"Compute", "Accumulate"}, evaluate |-> {"Assemble", "Compute"}]

\* TensorBase::compile
Compile ==
  /\ phase = "packed"
  /\ module' = [f \in DOMAIN FunctionProperties |->
                  lowerBody(withProperties(kernel, FunctionProperties[f]))]
  /\ phase' = "compiled"
  /\ UNCHANGED <<kernel, operands, arguments, prior, twin, fused, merge, sched, race>>

\* TensorBase::assemble: call assemble, then allocate the values and set them to 0
Assemble ==
  /\ phase = "compiled"
  /\ LET env == Exec(module.assemble, arguments)
         allocation_size == levelSize(env, kernel, kernel.name, orderOf(kernel, kernel.name))
     IN arguments' = [env EXCEPT !.a = (kernel.name \o "_vals" :>
                                          [p \in 1..allocation_size |-> 0]) @@ @]
  /\ phase' = "assembled"
  /\ UNCHANGED <<kernel, operands, module, prior, twin, fused, merge, sched, race>>

\* the caller writes the values of the result (getStorage) before compute
SetPrior ==
  /\ phase = "assembled"
  /\ \E v \in 1..MaxPrior :
       arguments' = [arguments EXCEPT !.a[kernel.name \o "_vals"] =
                       [p \in 1..Len(@) |-> v]]
  /\ phase' = "primed"
  /\ UNCHANGED <<kernel, operands, module, prior, twin, fused, merge, sched, race>>

\* TensorBase::compute
Compute ==
  /\ phase \in {"assembled", "primed"}
  /\ prior' = resultOf(arguments, kernel)
  /\ arguments' = Exec(module.compute, arguments)
  /\ twin' = resultOf(Exec(module.accumulate, arguments), kernel)
  /\ phase' = IF phase = "primed" THEN "accumulated" ELSE "computed"
  /\ UNCHANGED <<kernel, operands, module, fused, merge, sched, race>>

\* the single function lowered with {Assemble, Compute}, on fresh arguments
EvaluateFused ==
  /\ phase = "computed"
  /\ \E junk \in {0, JunkVal} :
       fused' = Exec(module.evaluate, packArguments(kernel, operands, junk))
  /\ phase' = "evaluated"
  /\ UNCHANGED <<kernel, operands, module, arguments, prior, twin, merge, sched, race>>

Next == Compile \/ Assemble \/ SetPrior \/ Compute \/ EvaluateFused

Spec == Init /\ [][Next]_vars

(***************************************************************************)
(* Result correctness and the assemble / compute decomposition.            *)
(***************************************************************************)
\* C3: after the function lowered with {Assemble} and then the function lowered
\* with {Compute} have run, the result equals, location by location, the dense
\* reference evaluation of the index expression.
ResultIsReference ==
  phase \in {"computed", "evaluated"} =>
    \A loc \in Locations(orderOf(kernel, kernel.name), Dim) :
      resultOf(arguments, kernel)[loc] = Reference(kernel, operands, loc)

\* a(i) = B(i,j) * c(j) was computed on a B with MaxNnz entries and gave non-zeros
SpmvComputed ==
  /\ phase = "computed"
  /\ kernel.rhs = MulNode(Bij, cj)
  /\ Cardinality(operands["b"]) = MaxNnz
  /\ \E loc \in Locations(1, Dim) : resultOf(arguments, kernel)[loc] > 1

\* C4: assemble followed by compute leaves the same index arrays and values
\* of the result as the single function lowered with {Assemble, Compute}.
FusedEqualsSeparate ==
  phase = "evaluated" => resultState(arguments, kernel) = resultState(fused, kernel)

\* the values array of the fused run was allocated and read before being written
FusedEvaluated ==
  /\ phase = "evaluated"
  /\ fused.junk = JunkVal
  /\ \E loc \in Locations(orderOf(kernel, kernel.name), Dim) :
       resultOf(fused, kernel)[loc] # resultOf(arguments, kernel)[loc]

(***************************************************************************)
(* Accumulate.                                                             *)
(***************************************************************************)
\* C5: with Accumulate (given explicitly or by the operator +=) the compute
\* function leaves every result value equal to its prior content plus the
\* right-hand side at that location, for results of every order, the scalar
\* lowered without loops included.
AccumulateAddsToPrior ==
  (phase \in {"computed", "accumulated", "evaluated"} /\ accumulates(kernel)) =>
    \A loc \in Locations(orderOf(kernel, kernel.name), Dim) :
      resultOf(arguments, kernel)[loc] = prior[loc] + Reference(kernel, operands, loc)

\* C6: on a result whose values are all zero, the compute function lowered with
\* Accumulate gives the same result values as the one lowered without it.
AccumulateOnZeroIsAssign ==
  (phase \in {"computed", "evaluated"} /\ ~accumulates(kernel)) =>
    twin = resultOf(arguments, kernel)

\* both compute functions ran from zero on a dense result that is only partly
\* written by the loops, and produced a non-zero
AccumulateOnZeroRan ==
  /\ phase = "computed"
  /\ ~accumulates(kernel)
  /\ kernel.formats[kernel.name] = <<"d">>
  /\ needsZero(kernel)
  /\ \E loc \in Locations(1, Dim) : twin[loc] > 0
  /\ \E loc \in Locations(1, Dim) : twin[loc] = 0

(***************************************************************************)
(* The loops of one lower() call, run one iteration at a time.  The        *)
(* statements merge vectors at the single index variable i.                *)
(***************************************************************************)
di == Access("d", <<"i">>)
VectorStatement(rhs, formats, dim) ==
  [Statement(OneVar, rhs, formats, OneVar, Flat) EXCEPT
     !.properties = {"Compute"}, !.dim = dim, !.allocSize = dim]

MergeStatements ==
  << \* a(i) = b(i) + c(i), sparse b and c
     VectorStatement(AddNode(bi, ci), [a |-> <<"d">>, b |-> <<"s">>, c |-> <<"s">>], VecDim),
     \* a(i) = b(i) * c(i), sparse b and c
     VectorStatement(MulNode(bi, ci), [a |-> <<"d">>, b |-> <<"s">>, c |-> <<"s">>], VecDim),
     \* a(i) = b(i) + c(i), dense b and sparse c
     VectorStatement(AddNode(bi, ci), [a |-> <<"d">>, b |-> <<"d">>, c |-> <<"s">>], VecDim),
     \* a(i) = b(i) * c(i), dense b and sparse c
     VectorStatement(MulNode(bi, ci), [a |-> <<"d">>, b |-> <<"d">>, c |-> <<"s">>], VecDim),
     \* a(i) = b(i), sparse b
     VectorStatement(bi, [a |-> <<"d">>, b |-> <<"s">>], VecDim),
     \* a(i) = b(i), b sparse and not unique
     VectorStatement(bi, [a |-> <<"d">>, b |-> <<"n">>], VecDim),
     \* a(i) = b(i) + c(i) + d(i), all sparse
     VectorStatement(AddNode(AddNode(bi, ci), di),
                     [a |-> <<"d">>, b |-> <<"s">>, c |-> <<"s">>, d |-> <<"s">>], Dim),
     \* a(i) = b(i) + c(i) + d(i), sparse b and c, dense d
     VectorStatement(AddNode(AddNode(bi, ci), di),
                     [a |-> <<"d">>, b |-> <<"s">>, c |-> <<"s">>, d |-> <<"d">>], Dim) >>

\* the coordinates 0..dim-1 that are held, in order, those of dups twice
RECURSIVE coordsWithDuplicates(_, _, _, _)
coordsWithDuplicates(held, dups, c, dim) ==
  IF c = dim THEN <<>>
  ELSE (IF <<c>> \in dups THEN <<c, c>> ELSE IF <<c>> \in held THEN <<c>> ELSE <<>>)
         \o coordsWithDuplicates(held, dups, c + 1, dim)

\* storage of a vector whose only level is compressed and not unique
packNonUnique(t, held, dups, dim) ==
  LET coords == coordsWithDuplicates(held, dups, 0, dim)
  IN [pos |-> << <<0, Len(coords)>> >>, idx |-> <<coords>>,
      vals |-> [n \in 1..Len(coords) |-> Weight(t, <<coords[n]>>)]]

\* the arguments of a statement of MergeStatements: the operands packed, the
\* values of the dense result allocated and zero
RECURSIVE bindVectors(_, _, _, _, _)
bindVectors(env, K, ops, dups, ts) ==
  IF ts = {} THEN env
  ELSE LET t == CHOOSE x \in ts : TRUE
           st == IF K.formats[t] = <<"n">> THEN packNonUnique(t, ops[t], dups, K.dim)
                 ELSE pack(dimsOf(K, t), K.formats[t],
                           sortCoords(ops[t], [loc \in ops[t] |-> Weight(t, loc)]))
       IN bindVectors(bindTensor(env, t, K.formats[t], dimsOf(K, t), st),
                      K, ops, dups, ts \ {t})
mergeArguments(K, ops, dups) ==
  bindTensor(bindVectors(EmptyEnv(JunkVal), K, ops, dups, operandsOf(K)),
             K.name, K.formats[K.name], dimsOf(K, K.name),
             [pos |-> << <<>> >>, idx |-> << <<>> >>, vals |-> [p \in 1..K.dim |-> 0]])

\* the statements of lower(target, i, rhs, ctx) for the root i of a statement
loopsOf(K) ==
  LET resultIterator == IteratorAt(K, getResultTensorPath(K), 1)
      target == Target(Values(K.name), getPosVar(resultIterator))
  IN lower(K, target, "i", K.rhs,
           [temporaries |-> {}, idxVars |-> <<>>, valsCapacity |-> Undef]).code

isLoop(s) == s.k \in {"While", "For"}
loopCondition(s, env) ==
  IF s.k = "While" THEN Eval(s.cond, env) ELSE env.v[s.var.name] < Eval(s.end, env)

InitMerge ==
  /\ \E n \in 1..Len(MergeStatements) : kernel = MergeStatements[n]
  /\ operands \in [operandsOf(kernel) -> SUBSET Locations(1, kernel.dim)]
  /\ \A t \in operandsOf(kernel) : operands[t] \in Patterns(kernel, t)
  /\ \E dups \in SUBSET Locations(1, kernel.dim) :
       /\ \A t \in operandsOf(kernel) :
            dups \subseteq (IF kernel.formats[t] = <<"n">> THEN operands[t] ELSE {})
       /\ merge = [k |-> "run", stmts |-> loopsOf(kernel), pc |-> 1, entered |-> FALSE,
                   env |-> mergeArguments(kernel, operands, dups), dups |-> dups,
                   iterations |-> 0, casesRun |-> 0]
  /\ phase = "lowered"
  /\ module = <<>>
  /\ arguments = <<>>
  /\ prior = <<>>
  /\ twin = <<>>
  /\ fused = <<>>
  /\ sched = Idle
  /\ race = Idle

mergeRunning == merge.k = "run" /\ merge.pc <= Len(merge.stmts)
mergeDone == merge.k = "run" /\ merge.pc > Len(merge.stmts)
unchangedByMerge ==
  UNCHANGED <<kernel, operands, phase, module, arguments, prior, twin, fused, sched, race>>

\* a statement that is not a loop runs
RunStatement ==
  /\ mergeRunning
  /\ ~isLoop(merge.stmts[merge.pc])
  /\ merge' = [merge EXCEPT !.env = Exec(merge.stmts[merge.pc], @), !.pc = @ + 1]
  /\ unchangedByMerge

\* control reaches a loop; a for-loop sets its variable
EnterLoop ==
  /\ mergeRunning
  /\ isLoop(merge.stmts[merge.pc])
  /\ ~merge.entered
  /\ LET s == merge.stmts[merge.pc]
     IN merge' = [merge EXCEPT !.entered = TRUE,
                    !.env = IF s.k = "For" THEN SetVar(@, s.var.name, Eval(s.start, @))
                            ELSE @]
  /\ unchangedByMerge

\* one iteration of the loop
IterateLoop ==
  /\ mergeRunning
  /\ merge.entered
  /\ merge.iterations < MaxIter
  /\ loopCondition(merge.stmts[merge.pc], merge.env)
  /\ LET s == merge.stmts[merge.pc]
         e1 == Exec(s.body, merge.env)
         e2 == IF s.k = "For" THEN SetVar(e1, s.var.name, e1.v[s.var.name] + 1) ELSE e1
     IN merge' = [merge EXCEPT !.env = e2, !.iterations = @ + 1,
                               !.casesRun = Len(e2.fired) - Len(merge.env.fired)]
  /\ unchangedByMerge

\* the loop condition fails
ExitLoop ==
  /\ mergeRunning
  /\ merge.entered
  /\ ~loopCondition(merge.stmts[merge.pc], merge.env)
  /\ merge' = [merge EXCEPT !.entered = FALSE, !.pc = @ + 1]
  /\ unchangedByMerge

NextMerge == RunStatement \/ EnterLoop \/ IterateLoop \/ ExitLoop

SpecMerge == InitMerge /\ [][NextMerge]_vars

(***************************************************************************)
(* Properties of the merge loops.                                          *)
(***************************************************************************)
\* the elements of a set of numbers, in increasing order
RECURSIVE ascending(_)
ascending(S) == IF S = {} THEN <<>> ELSE <<MinOf(S)>> \o ascending(S \ {MinOf(S)})

\* the coordinates an operand holds
coordinatesOf(t) == {loc[1] : loc \in operands[t]}
\* the merged coordinates of the case bodies run so far, in the order they ran
firedCoordinates == [n \in 1..Len(merge.env.fired) |-> merge.env.fired[n].idx]
\* the sub-lattice of the first lattice point of the root index variable
rootLattice == MergeLatticeMake(kernel, kernel.rhs, "i")

\* C1 as stated: after every iteration of a merge loop exactly one case body
\* has run in that iteration, never zero and never two.
ExactlyOneCasePerIteration ==
  (merge.k = "run" /\ merge.iterations > 0) => merge.casesRun = 1

\* the index expression is built of additions alone
RECURSIVE onlyAdditions(_)
onlyAdditions(e) ==
  e.k = "Access" \/ (e.k = "AddNode" /\ onlyAdditions(e.a) /\ onlyAdditions(e.b))

\* C1: in every iteration of a merge loop at most one case body runs, and
\* exactly one runs when the lattice is full or the operands are merged by
\* additions alone; a product of sparse operands whose coordinates differ
\* runs none.
AtMostOneCasePerIteration ==
  (merge.k = "run" /\ merge.iterations > 0) =>
    /\ merge.casesRun <= 1
    /\ (onlyAdditions(kernel.rhs) \/ latticeIsFull(rootLattice)) => merge.casesRun = 1

\* an iteration of the loop that merges two added sparse operands ran one of
\* its three cases
OneCaseOfUnionRan ==
  /\ merge.k = "run" /\ merge.iterations > 0 /\ merge.casesRun = 1
  /\ kernel = MergeStatements[1]
  /\ coordinatesOf("b") # {} /\ coordinatesOf("c") # {}

\* an iteration of the loop that merges two multiplied sparse operands ran no case
NoCaseOfIntersectionRan ==
  /\ merge.k = "run" /\ merge.iterations > 0 /\ merge.casesRun = 0
  /\ kernel = MergeStatements[2]

\* C2: when the loops emitted for a(i) = b(i) + c(i), b and c sparse, sorted
\* and free of duplicates, have run, the case bodies that ran are those of the
\* coordinates in the union of b's and c's coordinates, each once, in
\* increasing order.
MergeCoversUnion ==
  (mergeDone /\ kernel = MergeStatements[1]) =>
    firedCoordinates = ascending(coordinatesOf("b") \cup coordinatesOf("c"))

\* the three loops ran over operands that share a coordinate and each hold one
\* the other lacks
UnionMerged ==
  /\ mergeDone /\ kernel = MergeStatements[1]
  /\ coordinatesOf("b") \cap coordinatesOf("c") # {}
  /\ coordinatesOf("b") \ coordinatesOf("c") # {}
  /\ coordinatesOf("c") \ coordinatesOf("b") # {}

\* C10: the loop over a single sparse level that is not unique is a while-loop,
\* and when it has run, one case body ran for each distinct coordinate: the
\* positions that repeat a coordinate were skipped.
NonUniqueCoalesced ==
  (kernel = MergeStatements[6] /\ merge.k = "run") =>
    /\ \E n \in 1..Len(merge.stmts) : merge.stmts[n].k = "While"
    /\ mergeDone => firedCoordinates = ascending(coordinatesOf("b"))

\* the loop ran over a level that stores a coordinate twice
NonUniqueMerged ==
  mergeDone /\ kernel = MergeStatements[6] /\ merge.dups # {}

(***************************************************************************)
(* The loops of a lowered function and their tags.                         *)
(***************************************************************************)
\* the statements directly inside a statement
subStmts(s) ==
  CASE s.k = "Block" -> s.stmts
    [] s.k = "IfThenElse" -> <<s.then>>
    [] s.k \in {"Case", "Switch"} -> [n \in 1..Len(s.clauses) |-> s.clauses[n][2]]
    [] s.k \in {"For", "While"} -> <<s.body>>
    [] OTHER -> <<>>

\* the index variables of the cases in s that are not inside a loop of s
RECURSIVE marksIn(_), marksInSeq(_, _)
marksIn(s) ==
  IF s.k = "CaseMark" THEN <<s.iv>>
  ELSE IF isLoop(s) THEN <<>>
  ELSE marksInSeq(subStmts(s), 1)
marksInSeq(ss, n) == IF n > Len(ss) THEN <<>> ELSE marksIn(ss[n]) \o marksInSeq(ss, n + 1)

\* the loops in s, outermost first: kind of statement, tag, number of loops
\* around it, loop variable, and the index variable whose cases it runs ("" for
\* a loop that runs no case: a loop that zeroes or initializes)
RECURSIVE loopsIn(_, _), loopsInSeq(_, _, _)
loopsIn(s, depth) ==
  IF isLoop(s)
  THEN <<[k |-> s.k,
          tag |-> IF s.k = "For" THEN s.kind ELSE "Serial",
          depth |-> depth,
          var |-> IF s.k = "For" THEN s.var.name ELSE "",
          iv |-> IF marksIn(s.body) = <<>> THEN "" ELSE marksIn(s.body)[1]]>>
         \o loopsIn(s.body, depth + 1)
  ELSE loopsInSeq(subStmts(s), 1, depth)
loopsInSeq(ss, n, depth) ==
  IF n > Len(ss) THEN <<>> ELSE loopsIn(ss[n], depth) \o loopsInSeq(ss, n + 1, depth)

ThreeVars == <<"i", "j", "k">>
Chain3 == [i |-> "", j |-> "i", k |-> "j"]
Bijk == Access("b", ThreeVars)

\* the statements whose loops are tagged: A(i,j,k) = B(i,j,k),
\* a(i) = B(i,j) * c(j), alpha = b(i) * c(i), a(j) = B(i,j), a(i) = b(i) + c(i)
Shapes ==
  << [resultVars |-> ThreeVars, rhs |-> Bijk, ivars |-> ThreeVars, parent |-> Chain3],
     [resultVars |-> OneVar, rhs |-> MulNode(Bij, cj), ivars |-> TwoVars, parent |-> Chain],
     [resultVars |-> <<>>, rhs |-> MulNode(bi, ci), ivars |-> OneVar, parent |-> Flat],
     [resultVars |-> <<"j">>, rhs |-> Bij, ivars |-> TwoVars, parent |-> Chain],
     [resultVars |-> OneVar, rhs |-> AddNode(bi, ci), ivars |-> OneVar, parent |-> Flat] >>

\* every storage of the tensors of a shape in dense and sparse levels
formatsOf(sh) ==
  LET acc == getAccesses(sh.rhs)
      order == [t \in {"a"} \cup {acc[n].t : n \in 1..Len(acc)} |->
                  IF t = "a" THEN Len(sh.resultVars)
                  ELSE Len(acc[CHOOSE n \in 1..Len(acc) : acc[n].t = t].ivars)]
  IN {f \in [DOMAIN order -> UNION {[1..n -> {"d", "s"}] : n \in 0..3}] :
        \A t \in DOMAIN order : Len(f[t]) = order[t]}

PropertySets == {{"Compute"}, {"Assemble"}, {"Assemble", "Compute"}}

ParStatements ==
  UNION {{[Statement(sh.resultVars, sh.rhs, f, sh.ivars, sh.parent)
             EXCEPT !.properties = props] : f \in formatsOf(sh), props \in PropertySets} :
         sh \in Range(Shapes)}

\* statements with an operand that is looked up by coordinate:
\* a(i) = b(i) * c(i) and a(i) = b(i) * e(i) + c(i) + d(i)
ei == Access("e", <<"i">>)
LookupStatements ==
  {[Statement(OneVar, MulNode(bi, ci), [a |-> <<"d">>, b |-> <<"s">>, c |-> <<"h">>],
              OneVar, Flat) EXCEPT !.properties = props] : props \in PropertySets}
    \cup
  {[Statement(OneVar, AddNode(AddNode(MulNode(bi, ei), ci), di),
              [a |-> <<"d">>, b |-> <<"s">>, c |-> <<"s">>, d |-> <<"s">>, e |-> <<"h">>],
              OneVar, Flat) EXCEPT !.properties = props] : props \in PropertySets}

\* statements whose case bodies hold temporaries: A(i,j) = B(i,j) * c(i),
\* A(i,j) = c(i) * B(i,j) * d(i), a(i) = B(i,j) * C(i,k), alpha = B(i,j) * c(j),
\* A(i,j) = c(i) * B(i,j,k)
Cik == Access("c", <<"i", "k">>)
Siblings == [i |-> "", j |-> "i", k |-> "i"]
NestedShapes ==
  << [resultVars |-> TwoVars, rhs |-> MulNode(Bij, ci), ivars |-> TwoVars, parent |-> Chain,
      formats |-> [a |-> <<"d", "d">>, b |-> <<"d", "s">>, c |-> <<"d">>]],
     [resultVars |-> TwoVars, rhs |-> MulNode(MulNode(ci, Bij), di), ivars |-> TwoVars,
      parent |-> Chain,
      formats |-> [a |-> <<"d", "d">>, b |-> <<"d", "s">>, c |-> <<"d">>, d |-> <<"d">>]],
     [resultVars |-> OneVar, rhs |-> MulNode(Bij, Cik), ivars |-> ThreeVars, parent |-> Siblings,
      formats |-> [a |-> <<"d">>, b |-> <<"d", "s">>, c |-> <<"d", "s">>]],
     [resultVars |-> <<>>, rhs |-> MulNode(Bij, cj), ivars |-> TwoVars, parent |-> Chain,
      formats |-> [a |-> <<>>, b |-> <<"d", "s">>, c |-> <<"d">>]],
     [resultVars |-> TwoVars, rhs |-> MulNode(ci, Bijk), ivars |-> ThreeVars, parent |-> Chain3,
      formats |-> [a |-> <<"d", "d">>, b |-> <<"d", "s", "s">>, c |-> <<"d">>]] >>
NestedStatements ==
  {[Statement(sh.resultVars, sh.rhs, sh.formats, sh.ivars, sh.parent)
      EXCEPT !.properties = props] : sh \in Range(NestedShapes), props \in PropertySets}

InitPar ==
  /\ kernel \in (ParStatements \cup LookupStatements) \cup NestedStatements
  /\ operands = <<>>
  /\ phase = "stated"
  /\ module = <<>>
  /\ arguments = <<>>
  /\ prior = <<>>
  /\ twin = <<>>
  /\ fused = <<>>
  /\ merge = Idle
  /\ sched = [k |-> "stated"]
  /\ race = Idle

unchangedByPar ==
  UNCHANGED <<kernel, operands, phase, module, arguments, prior, twin, fused, merge, race>>

\* lower::lower: the statement is lowered to a function
LowerPar ==
  /\ sched.k = "stated"
  /\ LET code == lowerBody(kernel)
     IN sched' = [k |-> "lowered", loops |-> loopsIn(code, 0), pc |-> 0, code |-> code]
  /\ unchangedByPar

\* the next loop of the function is reached
VisitLoop ==
  /\ sched.k = "lowered"
  /\ sched.pc < Len(sched.loops)
  /\ sched' = [sched EXCEPT !.pc = @ + 1]
  /\ unchangedByPar

NextPar == LowerPar \/ VisitLoop

SpecPar == InitPar /\ [][NextPar]_vars

\* the loop reached
atLoop == sched.k = "lowered" /\ sched.pc > 0
theLoop == sched.loops[sched.pc]
tensorsOf(K) == operandsOf(K) \cup {K.name}

\* the result is stored in levels that all support insert
resultInserts(K) == \A l \in 1..Len(K.formats[K.name]) : K.formats[K.name][l] = "d"
\* the levels after the first of the storage of tensor t
laterLevels(K, t) == {K.formats[t][l] : l \in 2..Len(K.formats[t])}

\* C8: doParallelize returns Serial for an index variable that is not a root
\* or is a reduction variable, when Assemble is set, and when a level of the
\* result does not support insert; a loop of the lowered function that is
\* tagged Static or Dynamic is a for-loop, inside no other loop, that runs the
\* cases of a root index variable.
SerialUnlessFreeRoot ==
  /\ \A iv \in Range(kernel.ivars) : \A t \in tensorsOf(kernel) :
       (\/ iv \notin Range(getRoots(kernel))
        \/ iv \notin Range(kernel.resultVars)
        \/ "Assemble" \in kernel.properties
        \/ ~resultInserts(kernel))
         => doParallelize(kernel, iv, t) = "Serial"
  /\ atLoop /\ theLoop.tag # "Serial" =>
       /\ theLoop.k = "For"
       /\ theLoop.depth = 0
       /\ theLoop.iv \in Range(getRoots(kernel))

\* a for-loop below the tagged loop of the root is reached, and it is Serial
InnerLoopSerial ==
  /\ atLoop /\ theLoop.k = "For" /\ theLoop.depth = 1 /\ theLoop.tag = "Serial"
  /\ sched.loops[sched.pc - 1].tag # "Serial"

\* C9 as stated: a tag other than Serial is Static when the path of the
\* iterated tensor has at most 2 steps or every step after the first is
\* full, and Dynamic otherwise.
StaticWhenEveryStepFull ==
  \A iv \in Range(kernel.ivars) : \A t \in tensorsOf(kernel) :
    doParallelize(kernel, iv, t) # "Serial" =>
      doParallelize(kernel, iv, t) =
        IF Len(kernel.formats[t]) <= 2 \/ laterLevels(kernel, t) = {"d"}
        THEN "Static" ELSE "Dynamic"

\* C9: a tag other than Serial is Static when the path of the iterated tensor
\* has at most 2 steps or some step after the first is full, and Dynamic
\* otherwise; the tag of the root loop of A(i,j,k) = B(i,j,k) is the one
\* chosen for B.
StaticWhenSomeStepFull ==
  /\ \A iv \in Range(kernel.ivars) : \A t \in tensorsOf(kernel) :
       doParallelize(kernel, iv, t) # "Serial" =>
         doParallelize(kernel, iv, t) =
           IF Len(kernel.formats[t]) <= 2 \/ "d" \in laterLevels(kernel, t)
           THEN "Static" ELSE "Dynamic"
  /\ (atLoop /\ theLoop.tag # "Serial" /\ kernel.rhs = Bijk) =>
       theLoop.tag = IF "d" \in laterLevels(kernel, "b") THEN "Static" ELSE "Dynamic"

\* the root loop over a tensor stored (sparse, dense, sparse) is reached; it is
\* tagged Static
MixedPathStatic ==
  /\ atLoop /\ theLoop.depth = 0 /\ theLoop.tag = "Static"
  /\ kernel.rhs = Bijk /\ kernel.formats["b"] = <<"s", "d", "s">>

\* the root loop over a tensor whose later levels are all sparse is tagged Dynamic
SparsePathDynamic ==
  /\ atLoop /\ theLoop.depth = 0 /\ theLoop.tag = "Dynamic"
  /\ kernel.rhs = Bijk /\ laterLevels(kernel, "b") = {"s"}

(***************************************************************************)
(* Two iterations of a loop tagged Static or Dynamic.  Each iteration's    *)
(* accesses to the values of the result are those it makes when it runs    *)
(* from the memory the loop starts with; the two sequences of accesses are *)
(* interleaved one access at a time.                                       *)
(***************************************************************************)
\* the scalar variables a statement assigns without declaring them there, and
\* those it declares (a for-loop declares its variable)
RECURSIVE assignedIn(_), declaredIn(_)
assignedIn(s) ==
  (IF s.k = "VarAssign" /\ ~s.decl THEN {s.lhs.name} ELSE {})
    \cup UNION {assignedIn(subStmts(s)[n]) : n \in 1..Len(subStmts(s))}
declaredIn(s) ==
  (IF s.k = "VarAssign" /\ s.decl THEN {s.lhs.name}
   ELSE IF s.k = "For" THEN {s.var.name} ELSE {})
    \cup UNION {declaredIn(subStmts(s)[n]) : n \in 1..Len(subStmts(s))}

isParallel(s) == s.k = "For" /\ s.kind # "Serial"

\* the accesses to the values of the result made by the iteration of loop s
\* in which its variable is x
accessesOf(s, env, x) ==
  Exec(s.body, SetVar([env EXCEPT !.watch = kernel.name \o "_vals", !.acc = <<>>],
                      s.var.name, x)).acc

InitRace ==
  /\ \E n \in 1..Len(Statements), accum \in {"none", "property"} :
       kernel = [Statements[n] EXCEPT
                   !.properties = IF accum = "property" THEN {"Accumulate"} ELSE {}]
  /\ operands \in {f \in [operandsOf(kernel) ->
                             UNION {Patterns(kernel, t) : t \in operandsOf(kernel)}] :
                     \A t \in operandsOf(kernel) : f[t] \in Patterns(kernel, t)}
  /\ phase = "packed"
  /\ module = <<>>
  /\ arguments = packArguments(kernel, operands, JunkVal)
  /\ prior = <<>>
  /\ twin = <<>>
  /\ fused = <<>>
  /\ merge = Idle
  /\ sched = Idle
  /\ race = Idle

unchangedByRace ==
  UNCHANGED <<kernel, operands, module, arguments, prior, twin, fused, merge, sched>>

\* TensorBase::compute is called: the compute function starts
StartCompute ==
  /\ phase = "assembled"
  /\ race' = [k |-> "run", stmts |-> module.compute.stmts, pc |-> 1, env |-> arguments]
  /\ phase' = "computing"
  /\ unchangedByRace

\* a statement of the function that is not a tagged loop runs
RunSerial ==
  /\ race.k = "run"
  /\ race.pc <= Len(race.stmts)
  /\ ~isParallel(race.stmts[race.pc])
  /\ race' = [race EXCEPT !.env = Exec(race.stmts[race.pc], @), !.pc = @ + 1]
  /\ UNCHANGED phase
  /\ unchangedByRace

\* control reaches a tagged loop: two of its iterations start
Fork ==
  /\ race.k = "run"
  /\ race.pc <= Len(race.stmts)
  /\ isParallel(race.stmts[race.pc])
  /\ \E x, y \in Eval(race.stmts[race.pc].start, race.env)
                   .. (Eval(race.stmts[race.pc].end, race.env) - 1) :
       /\ x < y
       /\ race' = [k |-> "forked", loop |-> race.stmts[race.pc], iteration |-> <<x, y>>,
                   log |-> <<accessesOf(race.stmts[race.pc], race.env, x),
                             accessesOf(race.stmts[race.pc], race.env, y)>>,
                   at |-> <<0, 0>>, reads |-> <<{}, {}>>, writes |-> <<{}, {}>>,
                   shared |-> assignedIn(race.stmts[race.pc].body)
                                \ declaredIn(race.stmts[race.pc].body)]
  /\ UNCHANGED phase
  /\ unchangedByRace

\* one of the two iterations makes its next access
StepIteration ==
  /\ race.k = "forked"
  /\ \E th \in 1..2 :
       /\ race.at[th] < Len(race.log[th])
       /\ LET access == race.log[th][race.at[th] + 1]
          IN race' = [race EXCEPT
                        !.at[th] = @ + 1,
                        !.reads[th] = IF access.op = "r" THEN @ \cup access.at ELSE @,
                        !.writes[th] = IF access.op = "w" THEN @ \cup access.at ELSE @]
  /\ UNCHANGED phase
  /\ unchangedByRace

NextRace == Compile \/ Assemble \/ StartCompute \/ RunSerial \/ Fork \/ StepIteration

SpecRace == InitRace /\ [][NextRace]_vars

\* C7: of two distinct iterations of a loop tagged Static or Dynamic, however
\* their accesses interleave, neither writes a position of the values of the
\* result that the other writes or reads; and every scalar variable the loop
\* body assigns is declared in the body, so each iteration has its own.
IterationsIndependent ==
  race.k = "forked" =>
    /\ race.writes[1] \cap (race.writes[2] \cup race.reads[2]) = {}
    /\ race.writes[2] \cap race.reads[1] = {}
    /\ race.shared = {}

\* both iterations of a tagged loop have written the result, the body of the
\* loop using a temporary
IterationsWrote ==
  /\ race.k = "forked"
  /\ race.writes[1] # {} /\ race.writes[2] # {}
  /\ race.at = <<Len(race.log[1]), Len(race.log[2])>>
  /\ \E v \in declaredIn(race.loop.body) : v = "tj"

(***************************************************************************)
(* Zeroing of the values of a dense result.                                *)
(***************************************************************************)
\* a statement the driver emits to zero the values: the store of 0 to a scalar
\* or the loop that stores 0 at every position
isZeroing(s) ==
  \/ s.k = "Store" /\ s.data = IntLit(0)
  \/ s.k = "For" /\ s.body.k = "Store" /\ s.body.data = IntLit(0)

\* the function without the statements that zero the values
loopNestOf(f) == Block(SelectSeq(f.stmts, LAMBDA s : ~isZeroing(s)))

\* the positions of the values of the result that the loop nest of the compute
\* function stores to; they depend on the operands alone
writtenByLoopNest ==
  LET log == Exec(loopNestOf(module.compute),
                  [arguments EXCEPT !.watch = kernel.name \o "_vals", !.acc = <<>>]).acc
  IN UNION {log[n].at : n \in {m \in 1..Len(log) : log[m].op = "w"}}

\* the result has levels, the innermost of them dense
denseOutput(K) ==
  orderOf(K, K.name) > 0 /\ K.formats[K.name][orderOf(K, K.name)] = "d"

\* C11: when the compute function lowered without Accumulate has run on a
\* dense result whose values the caller had written, every position of the
\* values that the loop nest does not store to holds 0.
UnwrittenValuesZero ==
  (phase = "accumulated" /\ ~accumulates(kernel) /\ denseOutput(kernel)) =>
    \A p \in 1..Len(arguments.a[kernel.name \o "_vals"]) :
      (p - 1) \notin writtenByLoopNest => arguments.a[kernel.name \o "_vals"][p] = 0

\* the level of tensor path ivars at which index variable v is stored
levelOf(ivars, v) == CHOOSE l \in 1..Len(ivars) : ivars[l] = v

\* (a) of needsZero: the last index variable of the result has an ancestor that
\* is not an index variable of the result
reducesIntoResult(K) ==
  \E v \in Range(getAncestors(K, K.resultVars[Len(K.resultVars)])) :
    v \notin Range(K.resultVars)

\* (b) of needsZero: an index variable of the result, stored in a level of the
\* result that supports insert, is stored in a level of an operand that is not
\* full
sparseIntoDense(K) ==
  \E v \in Range(K.resultVars) :
    /\ K.formats[K.name][levelOf(K.resultVars, v)] = "d"
    /\ \E n \in 1..Len(getAccesses(K.rhs)) :
         /\ v \in Range(getAccesses(K.rhs)[n].ivars)
         /\ K.formats[getAccesses(K.rhs)[n].t][levelOf(getAccesses(K.rhs)[n].ivars, v)] # "d"

\* C12: for a result with index variables, needsZero is true exactly when the
\* last index variable of the result has a reduction variable among its
\* ancestors, or an index variable of the result stored in an insert level is
\* stored in a level of some operand that is not full.
NeedsZeroExactly ==
  Len(kernel.resultVars) > 0 =>
    (needsZero(kernel) <=> (reducesIntoResult(kernel) \/ sparseIntoDense(kernel)))

\* a compute function was lowered with a zeroing loop that only a sparse
\* operand level under a dense result level calls for
ZeroedForSparseOperand ==
  /\ sched.k = "lowered"
  /\ Len(kernel.resultVars) > 0
  /\ ~reducesIntoResult(kernel) /\ sparseIntoDense(kernel)
  /\ \E n \in 1..Len(sched.loops) : sched.loops[n].iv = "" /\ sched.loops[n].depth = 0

(***************************************************************************)
(* The scalar path of the driver.                                          *)
(***************************************************************************)
\* the statements of a lowered function that are not blank lines
statementsOf(f) == SelectSeq(f.stmts, LAMBDA s : s.k # "BlankLine")

\* C13: the functions lowered from a statement without index variables have
\* no loop; with Compute there is exactly one store, of the lowered scalar
\* expression to position 0 of the values of the result, and with Assemble an
\* allocation of 1 value, and nothing else.
ScalarShortcut ==
  (kernel.ivars = <<>> /\ phase # "packed") =>
    \A f \in DOMAIN module :
      /\ loopsIn(module[f], 0) = <<>>
      /\ statementsOf(module[f]) =
           (IF "Assemble" \in FunctionProperties[f]
            THEN <<Allocate(Values(kernel.name), IntLit(1), FALSE)>> ELSE <<>>)
             \o (IF "Compute" \in FunctionProperties[f]
                 THEN <<Store(Values(kernel.name), IntLit(0),
                              lowerToScalarExpression(kernel, kernel.rhs, {}))>>
                 ELSE <<>>)

\* alpha = beta * gamma was compiled, assembled and computed
ScalarComputed ==
  /\ kernel.ivars = <<>> /\ kernel.rhs.k = "MulNode" /\ phase = "computed"
  /\ resultOf(arguments, kernel)[<<>>] = Weight("b", <<>>) * Weight("c", <<>>)

(***************************************************************************)
(* isLowerable and the entry point that asserts it.  The statements that   *)
(* are submitted are a(i) = B(i,j) * c(j) and its defective variants; a    *)
(* statement that is not in concrete notation has no forall for j.         *)
(***************************************************************************)
ReductionNode(v, a) == [k |-> "ReductionNode", var |-> v, a |-> a]

RECURSIVE hasReduction(_)
hasReduction(e) ==
  \/ e.k = "ReductionNode"
  \/ e.k \in {"AddNode", "MulNode"} /\ (hasReduction(e.a) \/ hasReduction(e.b))

RECURSIVE accessesUnder(_)
accessesUnder(e) ==
  IF e.k = "Access" THEN {e}
  ELSE IF e.k = "ReductionNode" THEN accessesUnder(e.a)
  ELSE accessesUnder(e.a) \cup accessesUnder(e.b)

\* the accesses of a statement, the result's included
accessesOfStmt(stmt) == {Access(stmt.name, stmt.resultVars)} \cup accessesUnder(stmt.rhs)

\* concrete index notation: no reduction node, and every index variable of an
\* access is bound by a forall
isConcreteNotation(stmt) ==
  /\ ~hasReduction(stmt.rhs)
  /\ \A x \in accessesOfStmt(stmt) : Range(x.ivars) \subseteq Range(stmt.ivars)

NotConcrete == "The index statement is not in concrete index notation"

isLowerable(stmt) ==
  IF ~isConcreteNotation(stmt) THEN [ok |-> FALSE, reason |-> NotConcrete]
  ELSE [ok |-> TRUE, reason |-> ""]

Cji == Access("c", <<"j", "i">>)

CheckShapes ==
  << \* a(i) = B(i,j) * c(j)
     [rhs |-> MulNode(Bij, cj), ivars |-> TwoVars, orders |-> [a |-> 1, b |-> 2, c |-> 1]],
     \* a(i) = B(i,j) * C(j,i): C is traversed against its storage order
     [rhs |-> MulNode(Bij, Cji), ivars |-> TwoVars, orders |-> [a |-> 1, b |-> 2, c |-> 2]],
     \* a(i) = sum(j, B(i,j) * c(j)): the reduction was not rewritten
     [rhs |-> ReductionNode("j", MulNode(Bij, cj)), ivars |-> OneVar,
      orders |-> [a |-> 1, b |-> 2, c |-> 1]],
     \* a(i) = B(i,j) * c(j) without a forall over j
     [rhs |-> MulNode(Bij, cj), ivars |-> OneVar, orders |-> [a |-> 1, b |-> 2, c |-> 1]],
     \* a(i) = B(i,j) * c(j) with a format of one level for the matrix B
     [rhs |-> MulNode(Bij, cj), ivars |-> TwoVars, orders |-> [a |-> 1, b |-> 1, c |-> 1]] >>

CheckStatements ==
  UNION {{Statement(OneVar, sh.rhs, f, sh.ivars, Chain) :
            f \in {g \in [DOMAIN sh.orders -> UNION {[1..n -> {"d", "s"}] : n \in 1..2}] :
                     \A t \in DOMAIN sh.orders : Len(g[t]) = sh.orders[t]}} :
         sh \in Range(CheckShapes)}

InitCheck ==
  /\ kernel \in CheckStatements
  /\ operands = <<>>
  /\ phase = "stated"
  /\ module = <<>>
  /\ arguments = <<>>
  /\ prior = <<>>
  /\ twin = <<>>
  /\ fused = <<>>
  /\ merge = Idle
  /\ sched = [k |-> "stated"]
  /\ race = Idle

\* a caller asks isLowerable(stmt, &reason)
CheckLowerable ==
  /\ sched.k = "stated"
  /\ sched' = [k |-> "checked", ok |-> isLowerable(kernel).ok,
               reason |-> isLowerable(kernel).reason]
  /\ unchangedByPar

\* lower(IndexStmt, ...): taco_iassert(isLowerable(stmt)) aborts, or the
\* lowering goes on to build the function
LowerStmt ==
  /\ sched.k \in {"stated", "checked"}
  /\ sched' = IF isLowerable(kernel).ok THEN [k |-> "lowering"] ELSE [k |-> "aborted"]
  /\ unchangedByPar

NextCheck == CheckLowerable \/ LowerStmt

SpecCheck == InitCheck /\ [][NextCheck]_vars

\* two accesses of the statement order two index variables differently
before(x, u, v) ==
  \E m, n \in 1..Len(x.ivars) : m < n /\ x.ivars[m] = u /\ x.ivars[n] = v

transposed(stmt) ==
  \E x, y \in accessesOfStmt(stmt) : \E u, v \in Range(x.ivars) :
    before(x, u, v) /\ before(y, v, u)

\* a tensor is accessed with another number of index variables than its
\* format has levels
formatMismatch(stmt) ==
  \E x \in accessesOfStmt(stmt) : Len(stmt.formats[x.t]) # Len(x.ivars)

programmerError(stmt) ==
  \/ ~isConcreteNotation(stmt)
  \/ hasReduction(stmt.rhs)
  \/ formatMismatch(stmt)
  \/ transposed(stmt)

\* C14: for a statement in a programmer-error class isLowerable answers false
\* with a reason, and the entry point that asserts it does not go on to
\* lower the statement.
ProgrammerErrorsRejected ==
  programmerError(kernel) =>
    /\ sched.k = "checked" => (~sched.ok /\ sched.reason # "")
    /\ sched.k # "lowering"

(***************************************************************************)
(* Empty operands.                                                         *)
(***************************************************************************)
\* the compressed levels of the operands, as <<tensor, level>>
sparseLevels(K) ==
  {tl \in operandsOf(K) \X (1..3) :
     tl[2] <= orderOf(K, tl[1]) /\ K.formats[tl[1]][tl[2]] = "s"}

\* there are operands with compressed levels, and each of them stores nothing
emptySparseOperands(K, ops) ==
  /\ sparseLevels(K) # {}
  /\ \A tl \in sparseLevels(K) : ops[tl[1]] = {}

\* running f on the memory env loads no coordinate of a compressed level of
\* an operand: the loops over these levels have no iteration
noIterations(f, env, K) ==
  \A tl \in sparseLevels(K) :
    Exec(f, [env EXCEPT !.watch = tl[1] \o ToString(tl[2]) \o "_idx", !.acc = <<>>]).acc = <<>>

\* the result stores no coordinate, its segments are all empty, and no store
\* went beyond the end of an array
emptyResult(env, K) ==
  /\ ~env.oob
  /\ \A l \in 1..Len(K.resultVars) :
       /\ resultState(env, K).idx[l] = <<>>
       /\ \A n \in 1..Len(resultState(env, K).pos[l]) : resultState(env, K).pos[l][n] = 0

everyOperandCompressed(K) ==
  \A t \in operandsOf(K) : \E l \in 1..orderOf(K, t) : K.formats[t][l] = "s"

allDense(K) == \A t \in tensorsOf(K) : \A l \in 1..Len(K.formats[t]) : K.formats[t][l] = "d"

\* the loop reached is the loop of a root index variable
atRootLoop == atLoop /\ theLoop.depth = 0 /\ theLoop.iv \in Range(getRoots(kernel))

\* C16 as stated: when every level of every tensor is dense, every loop is a
\* for-loop and the loop of the root index variable carries a tag other than
\* Serial.
DenseRootNotSerial ==
  (allDense(kernel) /\ atLoop) =>
    /\ theLoop.k = "For"
    /\ atRootLoop => theLoop.tag # "Serial"

\* C16 (amended): when every level of every tensor is dense, every loop is a
\* for-loop, and the loop of the root index variable is tagged Static when
\* the root is a free variable and Assemble is not set, and Serial otherwise.
DenseRootStaticUnlessGuarded ==
  (allDense(kernel) /\ atLoop) =>
    /\ theLoop.k = "For"
    /\ atRootLoop =>
         theLoop.tag = IF isFree(kernel, theLoop.iv) /\ "Assemble" \notin kernel.properties
                       THEN "Static" ELSE "Serial"

\* the root loop of the dense a(i) = b(i) + c(i), lowered for Compute, is
\* reached and is Static
DenseRootStatic ==
  /\ allDense(kernel) /\ atRootLoop
  /\ kernel.rhs.k = "AddNode"
  /\ theLoop.k = "For" /\ theLoop.tag = "Static"

(***************************************************************************)
(* Advancement of the range iterators in a merge loop.                     *)
(***************************************************************************)
\* the loops emitted so far: the n-th loop is the loop of the n-th lattice point
loopNumber == Cardinality({n \in 1..merge.pc : isLoop(merge.stmts[n])})
loopRangeIterators == rootLattice[loopNumber].rangeIterators
\* the value of the iteratorVar of a range iterator
iteratorValue(env, it) == env.v[getIteratorVar(it).name]
\* this step is an iteration of a while-loop
whileIteration ==
  /\ mergeRunning /\ merge.entered
  /\ merge.stmts[merge.pc].k = "While"
  /\ merge'.iterations = merge.iterations + 1

\* C18: in an iteration of a while-loop no range iterator of the lattice
\* point moves back and one of them advances by 1, and no loop is still
\* running when the operands are used up (MaxIter iterations are never
\* reached).
WhileLoopsAdvance ==
  /\ [](merge.k = "run" => merge.iterations < MaxIter /\ ~merge.env.cut)
  /\ [][whileIteration =>
          /\ \A it \in Range(loopRangeIterators) :
               iteratorValue(merge'.env, it) >= iteratorValue(merge.env, it)
          /\ \E it \in Range(loopRangeIterators) :
               iteratorValue(merge'.env, it) = iteratorValue(merge.env, it) + 1]_vars

\* the while-loop over the multiplied sparse b and c ran an iteration that
\* ran no case, and the loops have ended
MergeLoopEnded ==
  /\ mergeDone /\ kernel = MergeStatements[2]
  /\ merge.iterations > Len(merge.env.fired)

(***************************************************************************)
(* Capacity of the values of a result that is appended to.                 *)
(***************************************************************************)
resultAppends(K) ==
  Len(K.resultVars) > 0 /\ K.formats[K.name][Len(K.resultVars)] = "s"

\* the conditional resize of the values
isResize(s, K) ==
  /\ s.k = "IfThenElse"
  /\ s.then.k = "Block"
  /\ \E n \in 1..Len(s.then.stmts) :
       s.then.stmts[n].k = "Allocate" /\ s.then.stmts[n].arr = Values(K.name)

\* the bodies of the loops of s
RECURSIVE loopBodies(_)
loopBodies(s) ==
  (IF isLoop(s) THEN {s.body} ELSE {})
    \cup UNION {loopBodies(subStmts(s)[n]) : n \in 1..Len(subStmts(s))}

\* the paths through s, as the resizes and the stores to the values met on
\* the way, loops inside s left out
RECURSIVE pathsThrough(_, _), pathsThroughSeq(_, _, _)
pathsThrough(s, K) ==
  CASE isResize(s, K) -> {<<"resize">>}
    [] s.k = "Store" -> IF s.arr = Values(K.name) THEN {<<"store">>} ELSE {<<>>}
    [] s.k = "Block" -> pathsThroughSeq(s.stmts, 1, K)
    [] s.k = "IfThenElse" -> {<<>>} \cup pathsThrough(s.then, K)
    [] s.k \in {"Case", "Switch"} ->
         (IF s.k = "Case" /\ s.alwaysMatch THEN {} ELSE {<<>>})
           \cup UNION {pathsThrough(s.clauses[n][2], K) : n \in 1..Len(s.clauses)}
    [] OTHER -> {<<>>}
pathsThroughSeq(ss, n, K) ==
  IF n > Len(ss) THEN {<<>>}
  ELSE {p \o q : p \in pathsThrough(ss[n], K), q \in pathsThroughSeq(ss, n + 1, K)}

\* a path that stores runs the resize once, before the store
resizedOnce(path) ==
  (\E n \in 1..Len(path) : path[n] = "store") =>
    /\ Cardinality({n \in 1..Len(path) : path[n] = "resize"}) = 1
    /\ path[1] = "resize"

\* C19: the function lowered with Assemble and Compute for a result whose
\* last level is appended to makes no store beyond the capacity of the
\* values, whatever allocSize: valsCapacity is the number of values
\* allocated, every store stayed below it, and every path through a loop
\* iteration that stores a value runs the conditional resize exactly once,
\* before the store.
StoresBelowCapacity ==
  (resultAppends(kernel) /\ phase # "packed") =>
    /\ \A body \in loopBodies(module.evaluate) :
         \A path \in pathsThrough(body, kernel) : resizedOnce(path)
    /\ phase = "evaluated" =>
         /\ ~fused.oob
         /\ fused.v[kernel.name \o "_vals_capacity"] = Len(fused.a[kernel.name \o "_vals"])
         /\ levelSize(fused, kernel, kernel.name, Len(kernel.resultVars))
              <= fused.v[kernel.name \o "_vals_capacity"]

\* the values were allocated with no capacity, and two values were appended
AppendedFromNothing ==
  /\ resultAppends(kernel) /\ phase = "evaluated"
  /\ kernel.allocSize = 0
  /\ levelSize(fused, kernel, kernel.name, Len(kernel.resultVars)) = 2

\* the coordinate a range iterator stands at
coordinateAt(env, it) ==
  IF isFull(it) THEN iteratorValue(env, it)
  ELSE env.a[LevelName(it) \o "_idx"][iteratorValue(env, it) + 1]
\* the smallest coordinate the range iterators of the loop stand at
mergedCoordinate(env) ==
  MinOf({coordinateAt(env, loopRangeIterators[n]) : n \in 1..Len(loopRangeIterators)})
\* by how much the iteration moved a range iterator
advanceOf(it) == iteratorValue(merge'.env, it) - iteratorValue(merge.env, it)
\* the loop merges its range iterators with a switch on the indicator
loopWithSwitch ==
  mergeWithSwitchOf(loopRangeIterators, getSubLattice(rootLattice, rootLattice[loopNumber]))

\* C20: an iteration of a merge loop advances a range iterator by 1 when it
\* is full or stands at the merged coordinate, and by 0 otherwise; with a
\* switch the n-th range iterator advances by bit n of the indicator, which
\* is 1 exactly for the iterators at the merged coordinate; a for-loop has
\* no statement that assigns its variable.
AdvanceByMatch ==
  /\ [](merge.k = "run" =>
          \A n \in 1..Len(merge.stmts) :
            merge.stmts[n].k = "For" =>
              merge.stmts[n].var.name \notin assignedIn(merge.stmts[n].body))
  /\ [][whileIteration =>
          \A n \in 1..Len(loopRangeIterators) :
            /\ advanceOf(loopRangeIterators[n]) =
                 IF \/ isFull(loopRangeIterators[n])
                    \/ coordinateAt(merge.env, loopRangeIterators[n])
                         = mergedCoordinate(merge.env)
                 THEN 1 ELSE 0
            /\ loopWithSwitch =>
                 advanceOf(loopRangeIterators[n]) = Bit(merge'.env.v["i_ind"], n - 1)]_vars

\* the three-way merge with a switch has run an iteration in which only the
\* second of its iterators stood at the merged coordinate
SwitchAdvancedOne ==
  /\ merge.k = "run" /\ merge.entered /\ merge.iterations > 0
  /\ kernel = MergeStatements[7] /\ loopNumber = 1
  /\ "i_ind" \in DOMAIN merge.env.v /\ merge.env.v["i_ind"] = 2

(***************************************************************************)
(* Merging with a switch on the indicator.                                 *)
(***************************************************************************)
\* the switch statements of s that are not inside a loop of s
RECURSIVE switchesIn(_)
switchesIn(s) ==
  IF isLoop(s) THEN {}
  ELSE (IF s.k = "Switch" THEN {s} ELSE {})
         \cup UNION {switchesIn(subStmts(s)[n]) : n \in 1..Len(subStmts(s))}

\* the n-th loop of the statements, 0 when there are fewer
RECURSIVE nthLoop(_, _, _)
nthLoop(stmts, n, from) ==
  IF from > Len(stmts) THEN 0
  ELSE IF isLoop(stmts[from])
       THEN IF n = 1 THEN from ELSE nthLoop(stmts, n - 1, from + 1)
       ELSE nthLoop(stmts, n, from + 1)

\* the labels of the arms of a switch
labelsOf(sw) == {sw.clauses[n][1].n : n \in 1..Len(sw.clauses)}

RECURSIVE clausesIn(_)
clausesIn(s) ==
  (IF s.k \in {"Case", "Switch"} THEN Range(s.clauses) ELSE {})
    \cup UNION {clausesIn(subStmts(s)[n]) : n \in 1..Len(subStmts(s))}

\* the conjuncts of a condition
RECURSIVE conjunctsOf(_)
conjunctsOf(e) == IF e.k = "And" THEN conjunctsOf(e.a) \cup conjunctsOf(e.b) ELSE {e}

\* the points of the cases whose body starts in s, not inside a loop of s
RECURSIVE pointsIn(_)
pointsIn(s) ==
  IF s.k = "CaseMark" THEN {s.point}
  ELSE IF isLoop(s) THEN {}
  ELSE UNION {pointsIn(subStmts(s)[n]) : n \in 1..Len(subStmts(s))}

\* the locate iterators of a lattice point whose validity is decided at run time
guardedLocates(lq) ==
  {it \in Range(SeqRemove(lq.iterators, lq.rangeIterators)) : it.kind = "h"}

\* C22: the body of a case is entered only under a condition that holds the
\* validity variable of every locate iterator of the case whose validity is
\* decided at run time, in a conditional chain and in an indicator switch alike.
CaseBodiesGuarded ==
  (sched.k = "lowered" /\ kernel \in LookupStatements) =>
    \A n \in 1..Len(rootLattice) :
      \A cl \in clausesIn(sched.code) :
        PointName(rootLattice[n].iterators, 1) \in pointsIn(cl[2]) =>
          \A it \in guardedLocates(rootLattice[n]) :
            getValidVar(it) \in conjunctsOf(cl[1])

\* the same of the conditional chains only
ChainBodiesGuarded ==
  (sched.k = "lowered" /\ kernel \in LookupStatements) =>
    \A n \in 1..Len(rootLattice) :
      \A cl \in clausesIn(sched.code) :
        (PointName(rootLattice[n].iterators, 1) \in pointsIn(cl[2])
           /\ cl[1].k # "IntLit") =>
          \A it \in guardedLocates(rootLattice[n]) :
            getValidVar(it) \in conjunctsOf(cl[1])

\* a conditional chain was lowered whose case locates an input that may hold
\* no entry
ChainGuardLowered ==
  /\ sched.k = "lowered"
  /\ kernel \in LookupStatements
  /\ \E n \in 1..Len(rootLattice) : \E cl \in clausesIn(sched.code) :
       /\ PointName(rootLattice[n].iterators, 1) \in pointsIn(cl[2])
       /\ cl[1].k # "IntLit"
       /\ guardedLocates(rootLattice[n]) # {}

(***************************************************************************)
(* The order of the statements of a case body.                             *)
(***************************************************************************)
\* the case bodies in s: the blocks that start with the mark of a case
RECURSIVE caseBodiesIn(_)
caseBodiesIn(s) ==
  (IF s.k = "Block" /\ s.stmts # <<>> /\ s.stmts[1].k = "CaseMark" THEN {s.stmts} ELSE {})
    \cup UNION {caseBodiesIn(subStmts(s)[n]) : n \in 1..Len(subStmts(s))}

\* the index variable whose cases the loop s runs, "" when s is no such loop
loopVarOf(s) ==
  IF isLoop(s) /\ marksIn(s.body) # <<>> THEN marksIn(s.body)[1] ELSE ""

\* the places in a case body of the loops of the children of the case
childLoops(K, body) ==
  {n \in 1..Len(body) :
     loopVarOf(body[n]) \in Range(getChildren(K, body[1].iv))}

\* the places in a case body where the temporary t<v> is declared
declaresTemporary(body, v) ==
  {n \in 1..Len(body) :
     body[n].k = "VarAssign" /\ body[n].decl /\ body[n].lhs = Var("t" \o v)}

\* the places in a case body of the statements that store or assign the
\* computed expression: a store into the values of the result or an
\* assignment to a declared temporary
computeStores(K, body) ==
  {n \in 1..Len(body) :
     \/ body[n].k = "Store" /\ body[n].arr = GetProperty(K.name, "vals")
     \/ /\ body[n].k = "VarAssign" /\ ~body[n].decl
        /\ body[n].lhs \in {Var("t" \o v) : v \in Range(K.ivars)}}

\* C23: in a case body of a computing kernel, at and below the last free
\* variable the temporary of a child is declared as 0 before the loop of that
\* child and the one compute store follows every child loop; above the last
\* free variable the hoisted temporaries precede the child loops, no child
\* temporary is declared (the child keeps the target) and there is no compute
\* store.  A kernel that does not compute has neither temporaries nor stores.
CaseBodyOrdered ==
  sched.k = "lowered" =>
    \A body \in caseBodiesIn(sched.code) :
      LET iv == body[1].iv
          loops == childLoops(kernel, body)
          stores == computeStores(kernel, body)
      IN IF "Compute" \notin kernel.properties
         THEN /\ stores = {}
              /\ \A v \in Range(kernel.ivars) : declaresTemporary(body, v) = {}
         ELSE IF getComputeCase(kernel, iv) \in {"LAST_FREE", "BELOW_LAST_FREE"}
         THEN /\ \A l \in loops :
                   \E n \in declaresTemporary(body, loopVarOf(body[l])) :
                     n < l /\ body[n].rhs = IntLit(0)
              /\ Cardinality(stores) = 1
              /\ \A l \in loops, n \in stores : l < n
         ELSE /\ \A l \in loops, n \in declaresTemporary(body, iv) : n < l
              /\ \A l \in loops : declaresTemporary(body, loopVarOf(body[l])) = {}
              /\ stores = {}

\* A(i,j) = c(i) * B(i,j,k) was lowered: the case of i hoists c(i) before the
\* loop of j, the case of j sums the loop of k into tk before its store
TemporariesLowered ==
  /\ sched.k = "lowered"
  /\ "Compute" \in kernel.properties
  /\ \E body \in caseBodiesIn(sched.code) :
       /\ getComputeCase(kernel, body[1].iv) = "ABOVE_LAST_FREE"
       /\ declaresTemporary(body, body[1].iv) # {}
       /\ childLoops(kernel, body) # {}
  /\ \E body \in caseBodiesIn(sched.code) :
       /\ getComputeCase(kernel, body[1].iv) = "LAST_FREE"
       /\ childLoops(kernel, body) # {}
       /\ computeStores(kernel, body) # {}

(***************************************************************************)
(* The statement emitComputeExpr emits.                                    *)
(***************************************************************************)
\* the target of the cases of index variable iv has a position: the target is
\* the values of the result unless the parent of iv reduces its children into
\* temporaries
targetHasPos(K, iv) ==
  \/ K.parent[iv] = ""
  \/ getComputeCase(K, K.parent[iv]) = "ABOVE_LAST_FREE"

\* st adds to what its target holds
isCompound(st) ==
  \/ st.k = "Store" /\ st.data.k = "Add" /\ st.data.a = Load(st.arr, st.loc)
  \/ st.k = "VarAssign" /\ st.rhs.k = "Add" /\ st.rhs.a = st.lhs

\* C24: in every case body of a computing function where emitComputeExpr is
\* called it leaves exactly one statement: a store into the values of the
\* target at its position when the target has one, an assignment to the
\* target otherwise, in the compound form exactly when the index variable has
\* a reduction variable among its ancestors or the function accumulates.
ComputeStatementForm ==
  phase # "packed" =>
    \A f \in {g \in DOMAIN module : "Compute" \in FunctionProperties[g]} :
      LET K == withProperties(kernel, FunctionProperties[f])
      IN \A body \in caseBodiesIn(module[f]) :
           getComputeCase(K, body[1].iv) # "ABOVE_LAST_FREE" =>
             /\ Cardinality(computeStores(K, body)) = 1
             /\ \A n \in computeStores(K, body) :
                  /\ IF targetHasPos(K, body[1].iv)
                     THEN body[n].k = "Store" /\ defined(body[n].loc)
                     ELSE body[n].k = "VarAssign" /\ ~body[n].decl
                  /\ isCompound(body[n])
                       <=> (hasReductionVariableAncestor(K, body[1].iv) \/ accumulates(K))

\* a(i) = B(i,j) * c(j) was compiled without accumulation: the case of j adds
\* to the temporary, the case of i stores into the values
StoredAndAssigned ==
  /\ phase # "packed"
  /\ ~accumulates(kernel)
  /\ \E body \in caseBodiesIn(module.compute) : \E n \in computeStores(kernel, body) :
       body[n].k = "VarAssign" /\ isCompound(body[n])
  /\ \E body \in caseBodiesIn(module.compute) : \E n \in computeStores(kernel, body) :
       body[n].k = "Store" /\ ~isCompound(body[n])
  /\ \E body \in caseBodiesIn(module.accumulate) : \E n \in computeStores(kernel, body) :
       body[n].k = "Store" /\ isCompound(body[n])

(***************************************************************************)
(* createIfStatements on its own: the cases are any list of up to MaxCases *)
(* conditions, literal true among them at any place, with the body of the  *)
(* n-th case an assignment of n.                                           *)
(***************************************************************************)
MaxCases == 3

\* the conditions of the cases: literal true, two comparisons, a switch label
CaseConditions ==
  {BoolLit(TRUE), Bin("Eq", Var("ib"), Var("i")), Bin("Eq", Var("ic"), Var("i")), IntLit(1)}

CaseLists ==
  UNION {{[n \in 1..len |-> <<conds[n], VarAssign(Var("ran"), IntLit(n), FALSE)>>] :
            conds \in [1..len -> CaseConditions]} : len \in 1..MaxCases}

InitCases ==
  /\ kernel \in {MergeStatements[1], MergeStatements[3]}
  /\ operands = <<>>
  /\ phase = "cases"
  /\ module = <<>>
  /\ arguments = <<>>
  /\ prior = <<>>
  /\ twin = <<>>
  /\ fused = <<>>
  /\ merge = Idle
  /\ \E cases \in CaseLists, switchExpr \in {Undef, Var("i_ind")} :
       sched = [k |-> "cases", cases |-> cases, switchExpr |-> switchExpr]
  /\ race = Idle

\* lower() wraps the cases of a lattice point
CreateIfStatements ==
  /\ sched.k = "cases"
  /\ sched' = [k |-> "created", cases |-> sched.cases, switchExpr |-> sched.switchExpr,
               stmt |-> createIfStatements(sched.cases, rootLattice, sched.switchExpr)]
  /\ unchangedByPar

NextCases == CreateIfStatements

SpecCases == InitCases /\ [][NextCases]_vars

\* the places of the cases whose condition is literal true
trueCases(cases) == {n \in 1..Len(cases) : isTrueLiteral(cases[n][1])}

\* C25: a single literal-true case gives its bare body; otherwise two
\* literal-true cases fail the internal assertion, one literal-true case is
\* the last clause of an always-matching conditional behind the other cases in
\* their order, and without one the cases in their order are the arms of a
\* switch on the switch expression when it is defined, of a conditional chain
\* when it is not.
IfStatementsShaped ==
  sched.k = "created" =>
    LET cases == sched.cases
        trues == trueCases(cases)
        others == SelectSeq(cases, LAMBDA cas : ~isTrueLiteral(cas[1]))
    IN IF Len(cases) = 1 /\ trues # {} THEN sched.stmt = cases[1][2]
       ELSE CASE Cardinality(trues) > 1 -> sched.stmt.k = "IAssert"
              [] Cardinality(trues) = 1 ->
                   /\ sched.stmt.k = "Case"
                   /\ sched.stmt.alwaysMatch
                   /\ sched.stmt.clauses = Append(others, cases[CHOOSE n \in trues : TRUE])
              [] OTHER ->
                   /\ sched.stmt.k = IF defined(sched.switchExpr) THEN "Switch" ELSE "Case"
                   /\ sched.stmt.clauses = cases
                   /\ defined(sched.switchExpr) => sched.stmt.control = sched.switchExpr

\* the literal-true case stood first of three and was moved behind the others
ElseMovedLast ==
  /\ sched.k = "created"
  /\ Len(sched.cases) = 3
  /\ trueCases(sched.cases) = {1}
  /\ sched.stmt.k = "Case"
  /\ sched.stmt.clauses = <<sched.cases[2], sched.cases[3], sched.cases[1]>>

(***************************************************************************)
(* Appending the coordinates of the result.                                *)
(***************************************************************************)
\* the result levels that append below a level that appends
appendsBelowAppend(K) ==
  {l \in 2..Len(K.resultVars) :
     /\ hasAppend(IteratorAt(K, getResultTensorPath(K), l))
     /\ hasAppend(IteratorAt(K, getResultTensorPath(K), l - 1))}

\* s appends the coordinate of the level of it, s moves its position on
appendsCoord(s, it) == s.k = "Store" /\ s.arr = IdxArray(it)
incrementsPos(s, it) ==
  s = VarAssign(getPosVar(it), Bin("Add", getPosVar(it), IntLit(1)), FALSE)

\* the statements of a case body and of the blocks and ifs directly in it,
\* each with the conditions it stands under
RECURSIVE guardedStmts(_, _, _)
guardedStmts(ss, n, conds) ==
  IF n > Len(ss) THEN <<>>
  ELSE (CASE ss[n].k = "Block" -> guardedStmts(ss[n].stmts, 1, conds)
          [] ss[n].k = "IfThenElse" ->
               guardedStmts(<<ss[n].then>>, 1, conds \cup {ss[n].cond})
          [] OTHER -> <<[s |-> ss[n], conds |-> conds]>>)
         \o guardedStmts(ss, n + 1, conds)

\* C26: in the function that assembles, the case body of a result level that
\* appends above a level that appends appends its coordinate and moves its
\* position only under next.beginVar < next.posVar, the coordinate first; after
\* assemble() every stored coordinate of such a level has a child segment that
\* is not empty.
UpperCoordinateHasChildren ==
  phase # "packed" =>
    /\ \A body \in caseBodiesIn(module.assemble) :
         LET it == IteratorOf(kernel, getResultTensorPath(kernel), body[1].iv)
             next == IteratorAt(kernel, getResultTensorPath(kernel), it.l + 1)
             gs == guardedStmts(body, 1, {})
         IN (iterDefined(it) /\ it.l + 1 \in appendsBelowAppend(kernel)) =>
              /\ \A n \in 1..Len(gs) :
                   (appendsCoord(gs[n].s, it) \/ incrementsPos(gs[n].s, it)) =>
                     Bin("Lt", getBeginVar(next), getPosVar(next)) \in gs[n].conds
              /\ \A n \in 1..Len(gs) :
                   incrementsPos(gs[n].s, it) =>
                     \E m \in 1..(n - 1) : appendsCoord(gs[m].s, it)
    /\ phase = "assembled" =>
         \A l \in appendsBelowAppend(kernel) :
           \A p \in 1..levelSize(arguments, kernel, kernel.name, l - 1) :
             LET pos == arguments.a[kernel.name \o ToString(l) \o "_pos"]
             IN pos[p] < pos[p + 1]

\* A(i,j) = B(i,j) was assembled from a B with an empty row and a row that is
\* not empty: one coordinate of the upper level is stored
EmptyRowSkipped ==
  /\ phase = "assembled"
  /\ appendsBelowAppend(kernel) = {2}
  /\ \E i \in 0..(kernel.dim - 1) : \A loc \in operands.b : loc[1] # i
  /\ levelSize(arguments, kernel, kernel.name, 1) = 1

(***************************************************************************)
(* The segments of an appended result level.                               *)
(***************************************************************************)
\* the result levels that append
appendLevels(K) ==
  {l \in 1..Len(K.resultVars) :
     LET it == IteratorAt(K, getResultTensorPath(K), l)
     IN hasAppend(it) /\ ~isBranchless(it)}

\* the variables an expression reads
RECURSIVE varsRead(_)
varsRead(e) ==
  CASE e.k = "Var" -> {e.name}
    [] e.k = "Load" -> varsRead(e.idx)
    [] e.k \in {"Add", "Sub", "Mul", "Lt", "Lte", "Eq", "Neq", "And", "BitAnd"} ->
         varsRead(e.a) \cup varsRead(e.b)
    [] e.k = "Cast" -> varsRead(e.a)
    [] e.k = "Min" -> UNION {varsRead(e.args[i]) : i \in 1..Len(e.args)}
    [] OTHER -> {}

\* the statements and conditions of s in the order of the text, each with the
\* variables it reads
RECURSIVE inOrder(_), inOrderSeq(_, _)
inOrder(s) ==
  CASE s.k = "Block" -> inOrderSeq(s.stmts, 1)
    [] s.k = "IfThenElse" -> <<[s |-> NoStmt, reads |-> varsRead(s.cond)]>> \o inOrder(s.then)
    [] s.k = "While" -> <<[s |-> NoStmt, reads |-> varsRead(s.cond)]>> \o inOrder(s.body)
    [] s.k = "For" ->
         <<[s |-> NoStmt, reads |-> varsRead(s.start) \cup varsRead(s.end)]>>
           \o inOrder(s.body)
    [] s.k \in {"Case", "Switch"} ->
         inOrderSeq([n \in 1..Len(s.clauses) |->
                       IfThenElse(s.clauses[n][1], s.clauses[n][2])], 1)
    [] s.k = "VarAssign" -> <<[s |-> s, reads |-> varsRead(s.rhs)]>>
    [] s.k = "Store" -> <<[s |-> s, reads |-> varsRead(s.loc) \cup varsRead(s.data)]>>
    [] OTHER -> <<[s |-> s, reads |-> {}]>>
inOrderSeq(ss, n) == IF n > Len(ss) THEN <<>> ELSE inOrder(ss[n]) \o inOrderSeq(ss, n + 1)

\* the number of cases of iv that ran in each call of lower() for iv: the
\* cases between two cases of the parent variable
RECURSIVE callCounts(_, _, _, _, _)
callCounts(fired, n, parentIv, iv, acc) ==
  IF n > Len(fired) THEN acc
  ELSE callCounts(fired, n + 1, parentIv, iv,
         IF fired[n].iv = parentIv THEN Append(acc, 0)
         ELSE IF fired[n].iv = iv /\ acc # <<>>
         THEN [acc EXCEPT ![Len(acc)] = @ + 1]
         ELSE acc)

\* assemble allocates the index arrays of the result anew, so that running it
\* again repeats its stores: the run of assemble with the stores into the
\* coordinates of level l logged
assembleLogged(l) ==
  Exec(module.assemble,
       [arguments EXCEPT !.watch = kernel.name \o ToString(l) \o "_idx",
                         !.acc = <<>>, !.fired = <<>>])

\* C27: for every result level that appends, the assemble function only
\* declares the position variable as 0 or adds 1 to it, binds beginVar to the
\* position once and before every statement that reads it; after assemble()
\* the coordinates were appended at the positions 0, 1, 2, ..., the segment
\* ends start at 0, never decrease and end at the number of coordinates
\* appended, and at the last level the segment of each stored parent position
\* is as long as the number of coordinates appended in the call for it.
SegmentsContiguous ==
  phase = "assembled" =>
    \A l \in appendLevels(kernel) :
      LET it == IteratorAt(kernel, getResultTensorPath(kernel), l)
          code == inOrder(module.assemble)
          bound == {n \in 1..Len(code) :
                      code[n].s = VarAssign(getBeginVar(it), getPosVar(it), TRUE)}
          run == assembleLogged(l)
          appended == SelectSeq(run.acc, LAMBDA a : a.op = "w")
          pos == arguments.a[kernel.name \o ToString(l) \o "_pos"]
          parents == levelSize(arguments, kernel, kernel.name, l - 1)
          parentAppends == l > 1 /\ hasAppend(getParent(kernel, it))
          counts == callCounts(run.fired, 1,
                               IF l = 1 THEN "" ELSE kernel.resultVars[l - 1],
                               kernel.resultVars[l], IF l = 1 THEN <<0>> ELSE <<>>)
          lengths == IF parentAppends THEN SelectSeq(counts, LAMBDA c : c > 0) ELSE counts
      IN /\ \A n \in 1..Len(code) :
              (code[n].s.k = "VarAssign" /\ code[n].s.lhs = getPosVar(it)) =>
                \/ code[n].s = VarAssign(getPosVar(it), IntLit(0), TRUE)
                \/ code[n].s = VarAssign(getPosVar(it),
                                         Bin("Add", getPosVar(it), IntLit(1)), FALSE)
         /\ Cardinality(bound) = 1
         /\ \A n \in 1..Len(code) :
              getBeginVar(it).name \in code[n].reads => \E m \in bound : m < n
         /\ \A n \in 1..Len(appended) : appended[n].at = {n - 1}
         /\ pos[1] = 0
         /\ \A p \in 1..parents : pos[p] <= pos[p + 1]
         /\ pos[parents + 1] = Len(appended)
         /\ l = Len(kernel.resultVars) =>
              /\ Len(lengths) = parents
              /\ \A p \in 1..parents : pos[p + 1] - pos[p] = lengths[p]

\* a result with two appended levels was assembled with two segments of one
\* coordinate in its second level
TwoSegmentsAppended ==
  /\ phase = "assembled"
  /\ appendLevels(kernel) = {1, 2}
  /\ levelSize(arguments, kernel, kernel.name, 1) = 2
  /\ levelSize(arguments, kernel, kernel.name, 2) = 2

(***************************************************************************)
(* The names of the temporaries.                                           *)
(***************************************************************************)
\* the places in a case body where a temporary is declared
temporariesDeclared(K, body) ==
  UNION {declaresTemporary(body, v) : v \in Range(K.ivars)}

\* C28: the temporaries declared in one case body have pairwise distinct
\* names, also when several available sub-expressions are hoisted at the index
\* variable of the case.
TemporariesDistinct ==
  sched.k = "lowered" =>
    \A body \in caseBodiesIn(sched.code) :
      \A n, m \in temporariesDeclared(kernel, body) :
        n # m => body[n].lhs # body[m].lhs

(***************************************************************************)
(* The order of the body of the lowered function.                          *)
(***************************************************************************)
\* the kernel as function f of the module lowers it
kernelOf(f) ==
  withProperties(kernel, FunctionProperties[f]
                           \cup (IF kernel.operator = "AddNode" THEN {"Accumulate"} ELSE {}))

\* the places of the statements of function f, by what they do
placesOf(f, test(_)) == {n \in 1..Len(module[f].stmts) : test(module[f].stmts[n])}
valuesAllocated(f) ==
  placesOf(f, LAMBDA s : s.k = "Allocate" /\ s.arr = Values(kernel.name))
valuesSizeStored(f) ==
  placesOf(f, LAMBDA s : s.k = "VarAssign" /\ s.lhs = ValuesSize(kernel.name))
levelsInitialized(f) ==
  placesOf(f, LAMBDA s : s.k = "Block" /\ s.stmts # <<>> /\ s.stmts[1].k = "Allocate")
capacityDeclared(f) ==
  placesOf(f, LAMBDA s : s.k = "VarAssign" /\ s.lhs = Var(kernel.name \o "_vals_capacity"))
positionsInitialized(f) ==
  placesOf(f, LAMBDA s : s.k = "VarAssign" /\ s.decl /\ s.rhs = IntLit(0)
                           /\ \E l \in 1..Len(kernel.resultVars) :
                                s.lhs = getPosVar(IteratorAt(kernel,
                                                    getResultTensorPath(kernel), l)))
valuesZeroed(f) == placesOf(f, isZeroing)
rootLoops(f) == placesOf(f, LAMBDA s : isLoop(s) /\ marksIn(s.body) # <<>>)
levelsFinalized(f) ==
  placesOf(f, LAMBDA s : s.k = "For" /\ marksIn(s.body) = <<>> /\ ~isZeroing(s))

\* the places of f behind its loop nests
inFinalization(f) ==
  {n \in 1..Len(module[f].stmts) : rootLoops(f) # {} /\ \A c \in rootLoops(f) : c < n}

\* every place of A is before every place of B
allBefore(A, B) == \A x \in A, y \in B : x < y

\* the values are allocated behind the loop nests, as many as the last level of
\* the result holds when the function has run, and their number is stored
allocatedInFinalization(f) ==
  /\ valuesAllocated(f) # {}
  /\ valuesAllocated(f) \subseteq inFinalization(f)
  /\ valuesSizeStored(f) # {}
  /\ valuesSizeStored(f) \subseteq inFinalization(f)
  /\ LET env == Exec(module[f], arguments)
         entries == levelSize(env, kernel, kernel.name, orderOf(kernel, kernel.name))
     IN /\ Len(env.a[kernel.name \o "_vals"]) = entries
        /\ env.v[kernel.name \o "_vals_size"] = entries

\* the statements of function f stand in the order initialization, position
\* variables and zeroing, loop nests, finalization
bodyOrdered(f) ==
  LET init == (levelsInitialized(f) \cup capacityDeclared(f))
                \cup (valuesAllocated(f) \ inFinalization(f))
      setup == positionsInitialized(f) \cup valuesZeroed(f)
      final == (levelsFinalized(f) \cup valuesSizeStored(f))
                 \cup (valuesAllocated(f) \cap inFinalization(f))
  IN /\ allBefore(init, setup)
     /\ allBefore(init \cup setup, rootLoops(f))
     /\ allBefore((init \cup setup) \cup rootLoops(f), final)

MaxInserted == 3

PackFormats == {<<"d">>, <<"s">>, <<"d", "d">>, <<"d", "s">>, <<"s", "d">>, <<"s", "s">>}

\* the sequences of up to MaxInserted coordinates of a tensor of the given
\* order; the value of the n-th inserted coordinate is n
InsertedCoordinates(order) ==
  UNION {{[n \in 1..len |-> [loc |-> locs[n], val |-> n]] :
            locs \in [1..len -> Locations(order, Dim)]} : len \in 0..MaxInserted}

\* std::sort(permutedCoords): the arrangements of the coordinates in which no
\* location stands before a smaller one; which of two equal locations comes
\* first is not determined
sortedArrangements(coords) ==
  {[n \in 1..Len(coords) |-> coords[perm[n]]] :
     perm \in {q \in [1..Len(coords) -> 1..Len(coords)] :
                 /\ \A x, y \in 1..Len(coords) : x # y => q[x] # q[y]
                 /\ \A x \in 1..(Len(coords) - 1) :
                      ~locLess(coords[q[x + 1]].loc, coords[q[x]].loc, 1)}}

InitPack ==
  /\ \E levels \in PackFormats :
       /\ kernel = [name |-> "b", formats |-> [b |-> levels], dim |-> Dim]
       /\ operands \in InsertedCoordinates(Len(levels))
  /\ phase = "inserted"
  /\ module = <<>>
  /\ arguments = <<>>
  /\ prior = <<>>
  /\ twin = <<>>
  /\ fused = <<>>
  /\ merge = Idle
  /\ sched = Idle
  /\ race = Idle

\* TensorBase::pack
Pack ==
  /\ phase = "inserted"
  /\ \E coords \in sortedArrangements(operands) :
       arguments' = pack([l \in 1..Len(kernel.formats.b) |-> kernel.dim],
                         kernel.formats.b, coords)
  /\ phase' = "packed"
  /\ UNCHANGED <<kernel, operands, module, prior, twin, fused, merge, sched, race>>

NextPack == Pack

SpecPack == InitPack /\ [][NextPack]_vars

\* the number of positions of level l of the packed storage
RECURSIVE packedSize(_, _, _)
packedSize(st, levels, l) ==
  IF l = 0 THEN 1
  ELSE IF levels[l] = "d" THEN packedSize(st, levels, l - 1) * kernel.dim
  ELSE Len(st.idx[l])

\* the locations inserted
insertedLocations == {operands[n].loc : n \in 1..Len(operands)}

====
